---- MODULE Spec2Model ----
(***************************************************************************)
(* A model of src/medical_agent.py: the workflow classifier with its       *)
(* cache, the MCP connection manager (connect_mcp_server,                  *)
(* connect_all_mcp_servers, ToolManager.get_tools_with_retry,              *)
(* initialize_session), the handling of one user turn                      *)
(* (process_query_smart, process_basic_query and the chat-input handler)   *)
(* and the run of the compiled graph, node by node.                        *)
(*                                                                         *)
(* The specifications share the variables:                                 *)
(*   SpecCls   the classifier called directly, with reconnects between     *)
(*             calls;                                                      *)
(*   SpecConn  one session initialisation or one tool dispatch, server by  *)
(*             server, scope entry to scope exit;                          *)
(*   Spec      the chat-input handler: turns, one at a time;               *)
(*   SpecGraph one run of the medical or the general graph from the input  *)
(*             built out of the history, and SpecGraphLive, the same run   *)
(*             under the scheduling of the run loop.                       *)
(* Numbers with a decimal point in the source (confidence) are kept in     *)
(* tenths.                                                                 *)
(***************************************************************************)
EXTENDS Integers, Sequences, FiniteSets, TLC

\* ------------------------------------------------------------------ bounds
MaxRespLen == 4        \* tokens in one model response
MaxCalls == 2          \* classify_workflow calls in one behaviour of SpecCls
MaxReconnects == 2     \* initialize_session runs in one behaviour of SpecCls
NumServers == 2        \* tool providers that can be configured
ToolsPerServer == 1    \* tools a provider lists, when it lists any
MaxOps == 2            \* connect operations in one behaviour of SpecConn
MaxTurns == 1          \* turns submitted in one behaviour of Spec
MaxHistTurns == 4      \* turns in the history a graph run starts from

VARIABLES
    \* LLMWorkflowClassifier (WorkflowClassifier._llm_classifier)
    cache,               \* self.cache: cache key -> ClassificationResult
    llm_calls,           \* self.llm.ainvoke calls made by classify_workflow
    n_calls,             \* classify_workflow calls made
    last_call,           \* the latest classify_workflow call and what it returned
    prev_call,           \* the call before it
    cache_gen,           \* cache key -> conn_gen at the time the entry was stored
    response_content,    \* the text parse_llm_response is applied to (SpecParse)
    \* st.session_state
    session_initialized,
    available_tools,     \* the catalog: a sequence of [name, gen]
    conn_gen,            \* successful initialize_session runs so far
    main_model,          \* st.session_state.main_model, and translator_model,
                         \* which is assigned with it: "none" or "set"
    mcp_config,          \* st.session_state.mcp_config: server ids, in order
    tool_count,          \* st.session_state.tool_count
    server_status,       \* server id -> [status, tools_count, error_message]
    connection_logs,     \* st.session_state.connection_logs
    \* the connect operation in progress
    op,                  \* "idle", "init" (initialize_session), "action" (tool node)
    cfg,                 \* the mcp_config the operation connects
    attempt,             \* get_tools_with_retry: the loop variable
    backoffs,            \* asyncio.sleep(1) calls made by get_tools_with_retry
    n_ops,               \* connect operations started
    op_result,           \* how the latest operation ended, and with which tools
    \* connect_all_mcp_servers: one scope
    scope_pc,            \* "none", "enter", "connecting", "dialing", "yielded",
                         \* "exiting"
    next_idx,            \* position of the for loop in cfg
    all_tools,
    server_sessions,     \* keys of the server_sessions dict
    stack,               \* AsyncExitStack: servers whose context was entered
    sessions_open,       \* servers with a live ClientSession
    pending_exc,         \* the exception in flight: "none", "Exception", "Cancelled"
    outcome,             \* server id -> what its connect did in this scope
    \* one turn of the chat-input handler
    history,             \* st.session_state.history: a sequence of [role, content]
    basic_model_initialized,
    turn_pc,             \* "idle", "smart", "compile", "run", "basic"
    user_query,
    selected_workflow,   \* process_query_smart: "none" before the selection
    agent,               \* the compiled graph: "none", "medical", "general"
    resp,                \* the first value process_query returned: a dict
    turn_failure,        \* how the turn failed, "none" if it did not
    hist_before,         \* history when the turn started
    n_turns,             \* turns submitted
    \* one run of a compiled graph
    conversation_memory_turns,   \* st.session_state.conversation_memory_turns
    inputs,              \* inputs["messages"]: the messages the run starts from
    messages,            \* state["messages"]: the working state of the run
    g_next,              \* the node to run next: "idle" before a run, "END",
                         \* "raised" when an exception left a node
    executed,            \* the nodes run so far, in order
    dispatch,            \* how the action node of the run ended and the update
                         \* it returned; kind "none" before it ran
    accumulated_text,    \* the text buffer of the streaming callback: the
                         \* pieces appended so far
    accumulated_tool,    \* the tool-trace buffer of the streaming callback
    returned_text,       \* final_text as process_query_smart returns it
                         \* after a run, as a text; <<>> before
    returned_tool        \* final_tool as it returns it

clsVars == <<cache, llm_calls, n_calls, last_call, prev_call, cache_gen,
            response_content>>
sessVars == <<session_initialized, available_tools, conn_gen, main_model>>
statusVars == <<mcp_config, tool_count, server_status, connection_logs>>
opVars == <<op, cfg, attempt, backoffs, n_ops, op_result>>
scopeVars == <<scope_pc, next_idx, all_tools, server_sessions, stack,
               sessions_open, pending_exc, outcome>>
connVars == <<statusVars, opVars, scopeVars>>
turnVars == <<history, basic_model_initialized, turn_pc, user_query,
              selected_workflow, agent, resp, turn_failure, hist_before,
              n_turns>>
graphVars == <<conversation_memory_turns, inputs, messages, g_next, executed,
               dispatch, accumulated_text, accumulated_tool, returned_text,
               returned_tool>>
vars == <<clsVars, sessVars, connVars, turnVars, graphVars>>

\* ------------------------------------------------- the model's response text
\* A response of the text-generation service is a sequence of tokens.  The
\* tokens are the pieces parse_llm_response can tell apart: the two braces,
\* the members of the requested JSON object, and free text.
Tokens ==
    { "{", "}", "workflow:medical", "workflow:general", "workflow:research",
      "confidence:0.3", "confidence:null", "reason:r", "Medical", "ok" }

\* A confidence that is not a number (JSON null, a string): the numbers are
\* kept in tenths, and this value stands for every value that is none.
NotANumber == -1

Responses == UNION { [1..n -> Tokens] : n \in 0..MaxRespLen }

\* str.lower() on one token.
Lower(tok) == IF tok = "Medical" THEN "medical" ELSE tok

\* "medical" in <token>, for a lowered token.
HasMedical(tok) == tok \in {"medical", "workflow:medical"}

\* re.search(r'\{.*\}', response_content, re.DOTALL): greedy, so the span runs
\* from the first "{" to the last "}" after it; <<0, 0>> when there is none.
re_search(response) ==
    LET opens == { i \in 1..Len(response) : response[i] = "{" }
        first == IF opens = {} THEN 0
                 ELSE CHOOSE i \in opens : \A j \in opens : i <= j
        closes == { i \in 1..Len(response) : response[i] = "}" /\ i > first }
        last == IF closes = {} THEN 0
                ELSE CHOOSE i \in closes : \A j \in closes : j <= i
    IN IF first = 0 \/ last = 0 THEN <<0, 0>> ELSE <<first, last>>

\* The members of the JSON object a token stands for.
MemberKey(tok) ==
    CASE tok \in {"workflow:medical", "workflow:general", "workflow:research"}
           -> "workflow"
      [] tok \in {"confidence:0.3", "confidence:null"} -> "confidence"
      [] tok = "reason:r" -> "reason"
      [] OTHER -> "none"

MemberValue(tok) ==
    CASE tok = "workflow:medical" -> "medical"
      [] tok = "workflow:general" -> "general"
      [] tok = "workflow:research" -> "research"
      [] tok = "confidence:0.3" -> 3
      [] tok = "confidence:null" -> NotANumber
      [] tok = "reason:r" -> "r"
      [] OTHER -> "none"

\* json.loads(json_str) succeeds: the span is "{" members "}".
json_valid(response, span) ==
    \A i \in (span[1] + 1)..(span[2] - 1) : MemberKey(response[i]) # "none"

\* json.loads(json_str): the dict, a later member overriding an earlier one.
json_loads(response, span) ==
    LET inner == (span[1] + 1)..(span[2] - 1)
        keys == { MemberKey(response[i]) : i \in inner }
        lastOf(k) == CHOOSE i \in inner :
                        /\ MemberKey(response[i]) = k
                        /\ \A j \in inner : MemberKey(response[j]) = k => j <= i
    IN [k \in keys |-> MemberValue(response[lastOf(k)])]

\* dict.get(key, default)
dict_get(d, key, default) == IF key \in DOMAIN d THEN d[key] ELSE default

\* The text fallback of parse_llm_response.
text_fallback(response) ==
    IF \E i \in 1..Len(response) : HasMedical(Lower(response[i]))
    THEN [workflow |-> "medical", confidence |-> 7,
          reason |-> "text parsing", method |-> "fallback"]
    ELSE [workflow |-> "general", confidence |-> 7,
          reason |-> "text parsing", method |-> "fallback"]

\* The span of the response holds a JSON object that passes the field check.
json_accepted(response) ==
    LET span == re_search(response)
    IN /\ span # <<0, 0>>
       /\ json_valid(response, span)
       /\ "workflow" \in DOMAIN json_loads(response, span)
       /\ json_loads(response, span)["workflow"] \in {"medical", "general"}

\* How the JSON extraction of parse_llm_response ends on a response: no
\* brace-delimited span, a span json.loads rejects, an object that fails the
\* field check, or an accepted object.
extraction(response) ==
    LET span == re_search(response)
    IN IF span = <<0, 0>> THEN "no_span"
       ELSE IF ~json_valid(response, span) THEN "invalid_json"
       ELSE IF json_accepted(response) THEN "accepted"
       ELSE "rejected"

\* "medical" in response_content.lower()
mentions_medical(response) ==
    \E i \in 1..Len(response) : HasMedical(Lower(response[i]))

parse_llm_response(response) ==
    LET span == re_search(response)
    IN IF span # <<0, 0>> /\ ~json_valid(response, span)
       THEN \* json.loads raises; the except branch
            [workflow |-> "general", confidence |-> 5,
             reason |-> "parse failure", method |-> "error"]
       ELSE IF json_accepted(response)
       THEN LET result == json_loads(response, span)
            IN [workflow |-> result["workflow"],
                confidence |-> dict_get(result, "confidence", 8),
                reason |-> dict_get(result, "reason", "LLM classification"),
                method |-> "llm"]
       ELSE text_fallback(response)

fallback_to_medical ==
    [workflow |-> "medical", confidence |-> 5,
     reason |-> "LLM classification failed, default used", method |-> "fallback"]

\* get_fallback_classification(query, tool_info): confidence in tenths.
get_fallback_classification ==
    [workflow |-> "general", confidence |-> 5,
     reason |-> "LLM classification failed, default used", method |-> "fallback"]

\* No tool dispatch yet in the graph run.
NoDispatch == [kind |-> "none", update |-> <<>>]

\* No ClassificationResult: the value of a field that holds none yet.
NoResult ==
    [workflow |-> "none", confidence |-> 0, reason |-> "none", method |-> "none"]

\* What one self.llm.ainvoke under asyncio.wait_for(timeout=15.0) can do: answer
\* with a response, run into the timeout, or raise.  The parse of each response
\* is computed here once, for every response within the bound.
LLMBehaviours ==
    { [kind |-> "response", json_ok |-> json_accepted(r),
       parsed |-> parse_llm_response(r)] : r \in Responses }
    \cup
    { [kind |-> k, json_ok |-> FALSE, parsed |-> NoResult]
        : k \in {"timeout", "raise"} }

\* ------------------------------------------------------ server status, logs
Servers == 1..NumServers

\* The configurations an operator can apply: the first n providers, in order.
Configs == { [i \in 1..n |-> i] : n \in 0..NumServers }

\* get_tools_with_retry(mcp_config, max_retries=2)
max_retries == 2

NoOpResult == [kind |-> "none", tools |-> <<>>, attempts |-> 0]

update_status_never_connected(st, server_name, status, error_message, tools_count) ==
    LET shown == IF status = "connected" THEN "connecting" ELSE status
    IN [status |-> (server_name :> [status |-> shown, tools_count |-> tools_count,
                                    error_message |-> error_message]) @@ st.status,
        logs |-> Append(st.logs, [server |-> server_name, status |-> shown,
                                  message |-> error_message])]

\* update_server_status(server_name, status, error_message, tools_count) on the
\* pair st = [status, logs]: the record is overwritten, one log line appended
\* (last_updated, a wall-clock reading, is left out).
update_server_status(st, server_name, status, error_message, tools_count) ==
    [status |-> (server_name :> [status |-> status, tools_count |-> tools_count,
                                 error_message |-> error_message]) @@ st.status,
     logs |-> Append(st.logs, [server |-> server_name, status |-> status,
                               message |-> error_message])]

\* The tools a provider lists when it lists k of them, as load_mcp_tools
\* returns them in the scope of generation gen: the name of tool i of provider
\* s is the pair <<s, i>>.
load_mcp_tools(s, k, gen) ==
    [i \in 1..k |-> [name |-> <<s, i>>, gen |-> gen]]

\* What connecting one provider can do: the transport does not start
\* ("spawn_error"), session.initialize() exceeds its 30 s ("timeout") or raises
\* ("init_error"), load_mcp_tools raises ("load_error"), or the provider
\* lists k tools.
FailureKinds == {"spawn_error", "timeout", "init_error", "load_error"}

ConnectOutcomes ==
    { [kind |-> f, k |-> 0] : f \in FailureKinds }
    \cup { [kind |-> "ok", k |-> k] : k \in {0, ToolsPerServer} }

\* The message of the exception connect_mcp_server's inner handlers raise.
InnerError(kind) ==
    CASE kind = "timeout" -> "init timeout (30s)"
      [] kind = "init_error" -> "session init failed: initialize"
      [] kind = "load_error" -> "session init failed: load tools"
      [] OTHER -> "spawn"

connect_timeout_unrecorded(st, s, out) ==
    LET s1 == update_server_status(st, s, "connecting", "connecting to server", 0)
        s2 == update_server_status(s1, s, "connecting",
                                   "initializing client session", 0)
        s3 == update_server_status(s2, s, "connecting", "loading tools", 0)
        fail(sx) ==
            update_server_status(
                update_server_status(sx, s, "failed", InnerError(out.kind), 0),
                s, "failed", "server connect failed: " \o InnerError(out.kind), 0)
    IN CASE out.kind = "spawn_error" ->
              update_server_status(s1, s, "failed", "server connect failed: spawn", 0)
         [] out.kind = "timeout" -> s2
         [] out.kind = "init_error" -> fail(s2)
         [] out.kind = "load_error" -> fail(s3)
         [] OTHER ->
              update_server_status(s3, s, "connected", "tools connected", out.k)

\* connect_mcp_server(server_name, server_config) up to its yield or its raise,
\* on st = [status, logs], when the connect behaves as out.
connect_mcp_server(st, s, out) ==
    LET s1 == update_server_status(st, s, "connecting", "connecting to server", 0)
        s2 == update_server_status(s1, s, "connecting",
                                   "initializing client session", 0)
        s3 == update_server_status(s2, s, "connecting", "loading tools", 0)
        fail(sx) ==
            update_server_status(
                update_server_status(sx, s, "failed", InnerError(out.kind), 0),
                s, "failed", "server connect failed: " \o InnerError(out.kind), 0)
    IN CASE out.kind = "spawn_error" ->
              update_server_status(s1, s, "failed", "server connect failed: spawn", 0)
         [] out.kind \in {"timeout", "init_error"} -> fail(s2)
         [] out.kind = "load_error" -> fail(s3)
         [] OTHER ->
              update_server_status(s3, s, "connected", "tools connected", out.k)

\* ------------------------------------------------------------ the classifier
Queries == {"q1", "q2"}

ToolNames == {"pubmed_search", "weather"}

CatalogsWithEmpty ==
    { <<>>, <<"pubmed_search">>, <<"weather">>, <<"pubmed_search", "weather">> }

\* The name lists a connect can deliver: initialize_session keeps a catalog
\* only when it is not empty.
Catalogs ==
    { <<"pubmed_search">>, <<"weather">>, <<"pubmed_search", "weather">> }

\* [t.name for t in tools]
tool_names(tools) == [i \in 1..Len(tools) |-> tools[i].name]

NameCode(name) == IF name = "pubmed_search" THEN 1 ELSE 2

\* hash(str(names)): a hash of the text of the name list and of nothing else
\* (a polynomial hash stands for Python's string hash).
RECURSIVE str_hash(_)
str_hash(names) ==
    IF names = <<>> THEN 7
    ELSE (31 * str_hash(SubSeq(names, 1, Len(names) - 1))
            + NameCode(names[Len(names)])) % 65521

\* cache_key = f"{query}_{len(tools)}_{hash(str([t.name for t in tools]))}"
cache_key(query, tools) == <<query, Len(tools), str_hash(tool_names(tools))>>

classify_without_lookup(c, query, tools, b) ==
    LET key == cache_key(query, tools)
    IN IF b.kind = "response"
       THEN [result |-> b.parsed, cache |-> (key :> b.parsed) @@ c,
             invoked |-> TRUE, stored |-> TRUE]
       ELSE [result |-> get_fallback_classification, cache |-> c,
             invoked |-> TRUE, stored |-> FALSE]

\* classify_workflow(query, tools) on a classifier whose cache is c, when the
\* model call, if one is made, behaves as b: the result returned, the cache
\* afterwards and whether the model was invoked.
classify_workflow(c, query, tools, b) ==
    LET key == cache_key(query, tools)
    IN IF key \in DOMAIN c
       THEN [result |-> c[key], cache |-> c, invoked |-> FALSE, stored |-> FALSE]
       ELSE IF b.kind = "response"
       THEN [result |-> b.parsed, cache |-> (key :> b.parsed) @@ c,
             invoked |-> TRUE, stored |-> TRUE]
       ELSE [result |-> get_fallback_classification, cache |-> c,
             invoked |-> TRUE, stored |-> FALSE]

NoCall ==
    [query |-> "none", tools |-> <<>>, gen |-> 0, key |-> <<>>, kind |-> "none",
     json_ok |-> FALSE, invoked |-> FALSE, result |-> NoResult]

\* WorkflowClassifier.select_workflow_type(query, tools), given what
\* classify_workflow returned.  The result is printed with
\* f"{result['confidence']:.2f}" before result["workflow"] is returned: a
\* confidence that is no number makes the format raise inside the try block,
\* and the handler answers "general".  (classify_workflow itself turns every
\* failure of the model call into a result.)
select_workflow_type(result) ==
    IF result.confidence = NotANumber THEN "general" ELSE result.workflow

\* classify_workflow(query, st.session_state.available_tools) on the
\* classifier of the process, when the model call behaves as b, with the
\* record of the call.
classify_step(query, b) ==
    LET r == classify_workflow(cache, query, available_tools, b)
        key == cache_key(query, available_tools)
    IN /\ (~r.invoked => b.kind = "timeout")   \* no call made: b is unused
       /\ cache' = r.cache
       /\ llm_calls' = llm_calls + (IF r.invoked THEN 1 ELSE 0)
       /\ cache_gen' = IF r.stored THEN (key :> conn_gen) @@ cache_gen
                                   ELSE cache_gen
       /\ prev_call' = last_call
       /\ last_call' =
            [query |-> query, tools |-> available_tools, gen |-> conn_gen,
             key |-> key,
             kind |-> IF r.invoked THEN b.kind ELSE "cached",
             json_ok |-> r.invoked /\ b.json_ok,
             invoked |-> r.invoked, result |-> r.result]
       /\ n_calls' = n_calls + 1
       /\ response_content' = response_content

\* One call of classify_workflow(query, st.session_state.available_tools).
ClassifyCall ==
    /\ session_initialized
    /\ n_calls < MaxCalls
    /\ \E query \in Queries, b \in LLMBehaviours : classify_step(query, b)
    /\ UNCHANGED <<sessVars, connVars, turnVars, graphVars>>

\* initialize_session as the classifier sees it, when the connect delivered the
\* tools named `names`: a fresh catalog (new tool objects) replaces the old
\* one; WorkflowClassifier._llm_classifier is created only if it is None, so
\* the classifier and its cache stay.
Reconnect ==
    /\ turn_pc = "idle"
    /\ conn_gen < MaxReconnects
    /\ \E names \in Catalogs :
         available_tools' =
            [i \in 1..Len(names) |-> [name |-> names[i], gen |-> conn_gen + 1]]
    /\ conn_gen' = conn_gen + 1
    /\ main_model' = "set"
    /\ session_initialized' = TRUE
    /\ UNCHANGED <<clsVars, connVars, turnVars, graphVars>>

\* initialize_session when no tool was delivered or the connect raised.
ReconnectFailed ==
    /\ turn_pc = "idle"
    /\ conn_gen < MaxReconnects
    /\ session_initialized
    /\ session_initialized' = FALSE
    /\ UNCHANGED <<available_tools, conn_gen, main_model, clsVars, connVars,
                   turnVars, graphVars>>

InitCls ==
    /\ cache = <<>>
    /\ llm_calls = 0
    /\ n_calls = 0
    /\ last_call = NoCall
    /\ prev_call = NoCall
    /\ cache_gen = <<>>
    /\ response_content = <<>>
    /\ session_initialized = FALSE
    /\ available_tools = <<>>
    /\ conn_gen = 0
    /\ main_model = "none"
    /\ mcp_config = <<>>
    /\ tool_count = 0
    /\ server_status = <<>>
    /\ connection_logs = <<>>
    /\ op = "idle"
    /\ cfg = <<>>
    /\ attempt = 0
    /\ backoffs = 0
    /\ n_ops = 0
    /\ op_result = NoOpResult
    /\ scope_pc = "none"
    /\ next_idx = 0
    /\ all_tools = <<>>
    /\ server_sessions = {}
    /\ stack = <<>>
    /\ sessions_open = {}
    /\ pending_exc = "none"
    /\ outcome = <<>>
    /\ history = <<>>
    /\ basic_model_initialized = FALSE
    /\ turn_pc = "idle"
    /\ user_query = "none"
    /\ selected_workflow = "none"
    /\ agent = "none"
    /\ resp = <<>>
    /\ turn_failure = "none"
    /\ hist_before = <<>>
    /\ n_turns = 0
    /\ conversation_memory_turns = 8
    /\ inputs = <<>>
    /\ messages = <<>>
    /\ g_next = "idle"
    /\ executed = <<>>
    /\ dispatch = NoDispatch
    /\ accumulated_text = <<>>
    /\ accumulated_tool = <<>>
    /\ returned_text = <<>>
    /\ returned_tool = <<>>

NextCls == ClassifyCall \/ Reconnect \/ ReconnectFailed

SpecCls == InitCls /\ [][NextCls]_vars

\* --------------------------------------------- parse_llm_response alone
\* parse_llm_response(response_content) on every response within the bound:
\* the result is recorded as that of a call whose model call answered.
InitParse ==
    /\ cache = <<>>
    /\ llm_calls = 0
    /\ n_calls = 0
    /\ last_call = NoCall
    /\ prev_call = NoCall
    /\ cache_gen = <<>>
    /\ response_content \in Responses
    /\ session_initialized = FALSE
    /\ available_tools = <<>>
    /\ conn_gen = 0
    /\ main_model = "none"
    /\ mcp_config = <<>>
    /\ tool_count = 0
    /\ server_status = <<>>
    /\ connection_logs = <<>>
    /\ op = "idle"
    /\ cfg = <<>>
    /\ attempt = 0
    /\ backoffs = 0
    /\ n_ops = 0
    /\ op_result = NoOpResult
    /\ scope_pc = "none"
    /\ next_idx = 0
    /\ all_tools = <<>>
    /\ server_sessions = {}
    /\ stack = <<>>
    /\ sessions_open = {}
    /\ pending_exc = "none"
    /\ outcome = <<>>
    /\ history = <<>>
    /\ basic_model_initialized = FALSE
    /\ turn_pc = "idle"
    /\ user_query = "none"
    /\ selected_workflow = "none"
    /\ agent = "none"
    /\ resp = <<>>
    /\ turn_failure = "none"
    /\ hist_before = <<>>
    /\ n_turns = 0
    /\ conversation_memory_turns = 8
    /\ inputs = <<>>
    /\ messages = <<>>
    /\ g_next = "idle"
    /\ executed = <<>>
    /\ dispatch = NoDispatch
    /\ accumulated_text = <<>>
    /\ accumulated_tool = <<>>
    /\ returned_text = <<>>
    /\ returned_tool = <<>>

ParseResponse ==
    /\ last_call = NoCall
    /\ last_call' = [NoCall EXCEPT !.kind = "response", !.invoked = TRUE,
                                   !.json_ok = json_accepted(response_content),
                                   !.result = parse_llm_response(response_content)]
    /\ UNCHANGED <<cache, llm_calls, n_calls, prev_call, cache_gen,
                   response_content, sessVars, connVars, turnVars, graphVars>>

NextParse == ParseResponse

SpecParse == InitParse /\ [][NextParse]_vars

\* ------------------------------------------------- the connection manager
\* for server_name in servers: update_server_status(server_name, status, msg),
\* skipping the servers in `skip`.
RECURSIVE mark_servers(_, _, _, _, _)
mark_servers(st, servers, skip, status, msg) ==
    IF servers = <<>> THEN st
    ELSE mark_servers(
            IF Head(servers) \in skip THEN st
            ELSE update_server_status(st, Head(servers), status, msg, 0),
            Tail(servers), skip, status, msg)

\* The scope in progress, counted over the operations and their attempts: the
\* identity of the tool objects it loads.
ScopeGen == (n_ops - 1) * max_retries + (IF op = "init" THEN attempt ELSE 0) + 1

\* The operation returns: its local variables are gone.
LocalsDropped ==
    /\ cfg' = <<>>
    /\ attempt' = 0
    /\ next_idx' = 0
    /\ all_tools' = <<>>
    /\ server_sessions' = {}
    /\ outcome' = <<>>
    /\ pending_exc' = "none"
    /\ scope_pc' = "none"
    /\ op' = "idle"

StatusNow == [status |-> server_status, logs |-> connection_logs]

initialize_session_unmarked(st, c) == st

\* initialize_session(mcp_config) up to the call of get_tools_with_retry, on
\* st = [status, logs]: every configured server is recorded connecting.
initialize_session_start(st, c) ==
    mark_servers(st, c, {}, "connecting", "connecting to server")

\* The servers of a status map in the order of their ids, as a sequence.
RECURSIVE in_order(_)
in_order(S) ==
    IF S = {} THEN <<>>
    ELSE LET m == CHOOSE x \in S : \A y \in S : x <= y
         IN <<m>> \o in_order(S \ {m})

\* The "apply settings" button, up to get_tools_with_retry: the status map and
\* the log are emptied, the catalog is dropped, every server of the pending
\* configuration is recorded connecting, and initialize_session starts.
ApplyButton ==
    /\ op = "idle"
    /\ n_ops < MaxOps
    /\ \E c \in Configs :
         LET st0 == mark_servers([status |-> <<>>, logs |-> <<>>], c, {},
                                 "connecting", "preparing connection")
             st == initialize_session_start(st0, c)
         IN /\ cfg' = c
            /\ server_status' = st.status
            /\ connection_logs' = st.logs
    /\ session_initialized' = FALSE
    /\ available_tools' = <<>>
    /\ tool_count' = 0
    /\ op' = "init"
    /\ attempt' = 0
    /\ backoffs' = 0
    /\ n_ops' = n_ops + 1
    /\ op_result' = NoOpResult
    /\ scope_pc' = "enter"
    /\ UNCHANGED <<clsVars, turnVars, graphVars, conn_gen, main_model, mcp_config,
                   next_idx, all_tools, server_sessions, stack, sessions_open,
                   pending_exc, outcome>>

\* The "reconnect failed servers" button, shown when a server is recorded
\* failed, up to get_tools_with_retry: the failed servers are recorded
\* connecting, one line is logged, and initialize_session starts.
ReconnectButton ==
    /\ op = "idle"
    /\ n_ops < MaxOps
    /\ LET failed_servers == { s \in DOMAIN server_status :
                                  server_status[s].status = "failed" }
       IN /\ failed_servers # {}
          /\ \E c \in Configs :
               LET st0 == mark_servers(StatusNow, in_order(failed_servers), {},
                                       "connecting", "retrying connection")
                   st1 == [st0 EXCEPT !.logs =
                              Append(@, [server |-> 0, status |-> "reconnect",
                                         message |-> "reconnecting failed servers"])]
                   st == initialize_session_start(st1, c)
               IN /\ cfg' = c
                  /\ server_status' = st.status
                  /\ connection_logs' = st.logs
    /\ session_initialized' = FALSE
    /\ op' = "init"
    /\ attempt' = 0
    /\ backoffs' = 0
    /\ n_ops' = n_ops + 1
    /\ op_result' = NoOpResult
    /\ scope_pc' = "enter"
    /\ UNCHANGED <<clsVars, turnVars, graphVars, available_tools, conn_gen,
                   main_model, mcp_config, tool_count, next_idx, all_tools,
                   server_sessions, stack, sessions_open, pending_exc, outcome>>

\* The tool node of a graph (safe_tool_node, simple_tool_node) up to its
\* async with connect_all_mcp_servers(mcp_config).
StartAction ==
    /\ op = "idle"
    /\ n_ops < MaxOps
    /\ session_initialized
    /\ cfg' = mcp_config
    /\ op' = "action"
    /\ n_ops' = n_ops + 1
    /\ op_result' = NoOpResult
    /\ scope_pc' = "enter"
    /\ UNCHANGED <<clsVars, turnVars, graphVars, sessVars, statusVars, attempt, backoffs,
                   next_idx, all_tools, server_sessions, stack, sessions_open,
                   pending_exc, outcome>>

\* connect_all_mcp_servers up to its for loop.
EnterScope ==
    /\ scope_pc = "enter"
    /\ all_tools' = <<>>
    /\ server_sessions' = {}
    /\ connection_logs' = <<>>
    /\ stack' = <<>>
    /\ next_idx' = 1
    /\ pending_exc' = "none"
    /\ outcome' = <<>>
    /\ scope_pc' = "connecting"
    /\ UNCHANGED <<clsVars, turnVars, graphVars, sessVars, mcp_config, tool_count, server_status,
                   opVars, sessions_open>>

\* The for loop of connect_all_mcp_servers reaches its next server:
\* stack.enter_async_context(connect_mcp_server(server_id, config)) is awaited,
\* and the handshake of that server is in progress.  The loop is suspended in
\* this await until the handshake ends.
DialServer ==
    /\ scope_pc = "connecting"
    /\ next_idx <= Len(cfg)
    /\ scope_pc' = "dialing"
    /\ UNCHANGED <<clsVars, turnVars, graphVars, sessVars, statusVars, opVars, next_idx,
                   all_tools, server_sessions, stack, sessions_open,
                   pending_exc, outcome>>

\* The handshake in progress ends, and with it one round of the for loop:
\* either the tools are added or the exception is swallowed.  (The records
\* connect_mcp_server writes while the handshake proceeds are written here.)
ConnectServer ==
    /\ scope_pc = "dialing"
    /\ next_idx <= Len(cfg)
    /\ \E out \in ConnectOutcomes :
         LET s == cfg[next_idx]
             st == connect_mcp_server(StatusNow, s, out)
             tools == load_mcp_tools(s, out.k, ScopeGen)
         IN /\ server_status' = st.status
            /\ connection_logs' = st.logs
            /\ outcome' = (s :> out) @@ outcome
            /\ IF out.kind = "ok"
               THEN /\ all_tools' = all_tools \o tools
                    /\ server_sessions' = server_sessions \cup {s}
                    /\ stack' = Append(stack, s)
                    /\ sessions_open' = sessions_open \cup {s}
               ELSE UNCHANGED <<all_tools, server_sessions, stack, sessions_open>>
    /\ next_idx' = next_idx + 1
    /\ scope_pc' = "connecting"
    /\ UNCHANGED <<clsVars, turnVars, graphVars, sessVars, mcp_config, tool_count, opVars,
                   pending_exc>>

\* The handshake in progress is cancelled: the tool node runs under the
\* asyncio.wait_for of process_query_smart, and when the turn's time is up
\* the task is cancelled at the await it is suspended in.  CancelledError is
\* no Exception: neither handler of connect_mcp_server runs, the loop of
\* connect_all_mcp_servers does not swallow it, and the exit stack unwinds.
\* The record of the server is the last one written before the await: stage
\* 1 is stdio_client, 2 session.initialize(), 3 load_mcp_tools.
ConnectCancelled ==
    /\ op = "action"
    /\ scope_pc = "dialing"
    /\ next_idx <= Len(cfg)
    /\ \E stage \in 1..3 :
         LET s == cfg[next_idx]
             s1 == update_server_status(StatusNow, s, "connecting",
                                        "connecting to server", 0)
             s2 == update_server_status(s1, s, "connecting",
                                        "initializing client session", 0)
             s3 == update_server_status(s2, s, "connecting", "loading tools", 0)
             st == CASE stage = 1 -> s1 [] stage = 2 -> s2 [] OTHER -> s3
         IN /\ server_status' = st.status
            /\ connection_logs' = st.logs
            /\ outcome' = (s :> [kind |-> "cancelled", k |-> 0]) @@ outcome
    /\ pending_exc' = "Cancelled"
    /\ op_result' = [kind |-> "cancelled", tools |-> <<>>, attempts |-> 1]
    /\ scope_pc' = "exiting"
    /\ UNCHANGED <<clsVars, turnVars, graphVars, sessVars, mcp_config, tool_count,
                   op, cfg, attempt, backoffs, n_ops, next_idx, all_tools,
                   server_sessions, stack, sessions_open>>

\* yield all_tools, server_sessions
YieldScope ==
    /\ scope_pc = "connecting"
    /\ next_idx > Len(cfg)
    /\ scope_pc' = "yielded"
    /\ UNCHANGED <<clsVars, turnVars, graphVars, sessVars, statusVars, opVars, next_idx, all_tools,
                   server_sessions, stack, sessions_open, pending_exc, outcome>>

\* The body of get_tools_with_retry's async with: return tools.
InitBody ==
    /\ op = "init"
    /\ scope_pc = "yielded"
    /\ op_result' = [kind |-> "returning", tools |-> all_tools,
                     attempts |-> attempt + 1]
    /\ pending_exc' = "none"
    /\ scope_pc' = "exiting"
    /\ UNCHANGED <<clsVars, turnVars, graphVars, sessVars, statusVars, op, cfg, attempt, backoffs,
                   n_ops, next_idx, all_tools, server_sessions, stack,
                   sessions_open, outcome>>

\* The body of the tool node's async with: with tools, ToolNode(fresh_tools)
\* is invoked and returns, raises, or is cancelled by the turn's timeout;
\* without tools nothing is done.
ActionBody ==
    /\ op = "action"
    /\ scope_pc = "yielded"
    /\ \E b \in {"returned", "raised", "cancelled"} :
         /\ (all_tools = <<>> => b = "returned")
         /\ op_result' =
              [kind |-> IF all_tools = <<>> THEN "skipped" ELSE b,
               tools |-> all_tools, attempts |-> 1]
         /\ pending_exc' = CASE b = "raised" -> "Exception"
                             [] b = "cancelled" -> "Cancelled"
                             [] OTHER -> "none"
    /\ scope_pc' = "exiting"
    /\ UNCHANGED <<clsVars, turnVars, graphVars, sessVars, statusVars, op, cfg, attempt, backoffs,
                   n_ops, next_idx, all_tools, server_sessions, stack,
                   sessions_open, outcome>>

\* Leaving async with ClientSession(read, write) and async with
\* stdio_client(params) for server s: its session is closed.
close_leaking(open, s) == open

close_session(open, s) == open \ {s}

\* AsyncExitStack.__aexit__, one context: the generator of connect_mcp_server
\* is resumed at its yield (or the exception in flight is thrown into it
\* there), and the ClientSession and the transport are left.
\*   - No exception in flight: the contexts close; if closing raises, the
\*     outer handler of connect_mcp_server records the server failed and
\*     raises.
\*   - An Exception in flight: the inner handler around the yield catches it,
\*     records the server failed and raises; the outer handler does the same.
\*   - A cancellation is no Exception: no handler runs.
ExitServer ==
    /\ scope_pc = "exiting"
    /\ stack # <<>>
    /\ LET s == stack[Len(stack)]
       IN /\ stack' = SubSeq(stack, 1, Len(stack) - 1)
          /\ sessions_open' = close_session(sessions_open, s)
          /\ \E close_raises \in BOOLEAN :
               /\ (pending_exc # "none" => ~close_raises)
               /\ LET st ==
                        CASE pending_exc = "Exception" ->
                               update_server_status(
                                 update_server_status(StatusNow, s, "failed",
                                     "session init failed: body", 0),
                                 s, "failed",
                                 "server connect failed: session init failed: body", 0)
                          [] pending_exc = "none" /\ close_raises ->
                               update_server_status(StatusNow, s, "failed",
                                     "server connect failed: close", 0)
                          [] OTHER -> StatusNow
                  IN /\ server_status' = st.status
                     /\ connection_logs' = st.logs
               /\ pending_exc' = IF close_raises THEN "Exception" ELSE pending_exc
    /\ UNCHANGED <<clsVars, turnVars, graphVars, sessVars, mcp_config, tool_count, opVars, scope_pc,
                   next_idx, all_tools, server_sessions, outcome>>

no_tools_never(tools) == FALSE

\* if not all_tools
no_tools(tools) == tools = <<>>

\* get_tools_with_retry returns tools, and initialize_session goes on to its
\* end: without tools every configured server is recorded failed and the
\* session stays uninitialised.  With tools the catalog, its size and the
\* configuration are stored; then the models, the classifier and the default
\* graph are built, and if all of it succeeds the session is initialised.  If
\* building raises (before or after the models were stored), the except
\* branch records every configured server that is not connected as failed
\* and the session stays uninitialised.
InitReturn ==
    /\ op = "init"
    /\ scope_pc = "exiting"
    /\ stack = <<>>
    /\ pending_exc = "none"
    /\ IF no_tools(op_result.tools)
       THEN LET st == mark_servers(StatusNow, cfg, {}, "failed",
                                   "tool load failed - no tools connected")
            IN /\ server_status' = st.status
               /\ connection_logs' = st.logs
               /\ op_result' = [op_result EXCEPT !.kind = "init_no_tools"]
               /\ UNCHANGED <<sessVars, mcp_config, tool_count>>
       ELSE /\ tool_count' = Len(op_result.tools)
            /\ available_tools' = op_result.tools
            /\ mcp_config' = cfg
            /\ \E built \in {"all", "models_only", "nothing"} :
                 IF built = "all"
                 THEN /\ main_model' = "set"
                      /\ session_initialized' = TRUE
                      /\ conn_gen' = conn_gen + 1
                      /\ op_result' = [op_result EXCEPT !.kind = "init_ok"]
                      /\ UNCHANGED <<server_status, connection_logs>>
                 ELSE LET connected ==
                              { s \in DOMAIN server_status :
                                  server_status[s].status = "connected" }
                          st == mark_servers(StatusNow, cfg, connected, "failed",
                                             "error during initialisation")
                      IN /\ main_model' = IF built = "models_only" THEN "set"
                                          ELSE main_model
                         /\ server_status' = st.status
                         /\ connection_logs' = st.logs
                         /\ op_result' = [op_result EXCEPT !.kind = "init_raised"]
                         /\ UNCHANGED <<session_initialized, conn_gen>>
    /\ LocalsDropped
    /\ UNCHANGED <<clsVars, turnVars, graphVars, backoffs, n_ops, stack, sessions_open>>

\* get_tools_with_retry's except branch before the last attempt:
\* await asyncio.sleep(1), then the next round of the loop.
InitRetry ==
    /\ op = "init"
    /\ scope_pc = "exiting"
    /\ stack = <<>>
    /\ pending_exc = "Exception"
    /\ attempt # max_retries - 1
    /\ backoffs' = backoffs + 1
    /\ attempt' = attempt + 1
    /\ op_result' = NoOpResult
    /\ scope_pc' = "enter"
    /\ UNCHANGED <<clsVars, turnVars, graphVars, sessVars, statusVars, op, cfg, n_ops, next_idx,
                   all_tools, server_sessions, stack, sessions_open,
                   pending_exc, outcome>>

\* get_tools_with_retry's except branch on the last attempt: raise e, into
\* the except branch of initialize_session, which records every configured
\* server that is not connected as failed and returns False.
InitRaise ==
    /\ op = "init"
    /\ scope_pc = "exiting"
    /\ stack = <<>>
    /\ pending_exc = "Exception"
    /\ attempt = max_retries - 1
    /\ LET connected == { s \in DOMAIN server_status :
                             server_status[s].status = "connected" }
           st == mark_servers(StatusNow, cfg, connected, "failed",
                              "error during initialisation")
       IN /\ server_status' = st.status
          /\ connection_logs' = st.logs
    /\ op_result' = [kind |-> "init_raised", tools |-> <<>>,
                     attempts |-> attempt + 1]
    /\ LocalsDropped
    /\ UNCHANGED <<clsVars, turnVars, graphVars, sessVars, mcp_config, tool_count, backoffs, n_ops,
                   stack, sessions_open>>

\* The tool node after its async with: the node returns what ToolNode
\* returned (None when there were no tools), or its except branch returns the
\* synthetic ToolMessage; a cancellation passes through.
ActionDone ==
    /\ op = "action"
    /\ scope_pc = "exiting"
    /\ stack = <<>>
    /\ op_result' =
         [op_result EXCEPT !.kind =
            CASE pending_exc = "Exception" -> "error_message"
              [] pending_exc = "Cancelled" -> "cancelled"
              [] op_result.kind = "skipped" -> "none_returned"
              [] OTHER -> "tool_messages"]
    /\ LocalsDropped
    /\ UNCHANGED <<clsVars, turnVars, graphVars, sessVars, statusVars, backoffs, n_ops, stack,
                   sessions_open>>

InitConn ==
    /\ cache = <<>>
    /\ llm_calls = 0
    /\ n_calls = 0
    /\ last_call = NoCall
    /\ prev_call = NoCall
    /\ cache_gen = <<>>
    /\ response_content = <<>>
    /\ session_initialized = FALSE
    /\ available_tools = <<>>
    /\ conn_gen = 0
    /\ main_model = "none"
    /\ mcp_config = <<>>
    /\ tool_count = 0
    /\ server_status = <<>>
    /\ connection_logs = <<>>
    /\ op = "idle"
    /\ cfg = <<>>
    /\ attempt = 0
    /\ backoffs = 0
    /\ n_ops = 0
    /\ op_result = NoOpResult
    /\ scope_pc = "none"
    /\ next_idx = 0
    /\ all_tools = <<>>
    /\ server_sessions = {}
    /\ stack = <<>>
    /\ sessions_open = {}
    /\ pending_exc = "none"
    /\ outcome = <<>>
    /\ history = <<>>
    /\ basic_model_initialized = FALSE
    /\ turn_pc = "idle"
    /\ user_query = "none"
    /\ selected_workflow = "none"
    /\ agent = "none"
    /\ resp = <<>>
    /\ turn_failure = "none"
    /\ hist_before = <<>>
    /\ n_turns = 0
    /\ conversation_memory_turns = 8
    /\ inputs = <<>>
    /\ messages = <<>>
    /\ g_next = "idle"
    /\ executed = <<>>
    /\ dispatch = NoDispatch
    /\ accumulated_text = <<>>
    /\ accumulated_tool = <<>>
    /\ returned_text = <<>>
    /\ returned_tool = <<>>

NextConn ==
    \/ ApplyButton
    \/ ReconnectButton
    \/ StartAction
    \/ EnterScope
    \/ DialServer
    \/ ConnectServer
    \/ ConnectCancelled
    \/ YieldScope
    \/ InitBody
    \/ ActionBody
    \/ ExitServer
    \/ InitReturn
    \/ InitRetry
    \/ InitRaise
    \/ ActionDone

SpecConn == InitConn /\ [][NextConn]_vars

\* ------------------------------------------------------------------ a turn
\* The first value process_query_smart and process_basic_query return is a
\* dict: a function from its keys.
ErrorDescriptor(error_msg) == [error |-> error_msg]

\* The final state of a graph run: AgentState has the one key "messages".
FinalState == [messages |-> "final_state"]

BasicSuccess == [success |-> TRUE]

persist_always(r) == FALSE

\* "error" in resp
has_error(r) == "error" \in DOMAIN r

\* final_tool.strip(): the text without its leading and trailing blanks.
RECURSIVE lstrip(_)
lstrip(text) ==
    IF text # <<>> /\ Head(text) = " " THEN lstrip(Tail(text)) ELSE text

RECURSIVE rstrip(_)
rstrip(text) ==
    IF text # <<>> /\ text[Len(text)] = " "
    THEN rstrip(SubSeq(text, 1, Len(text) - 1))
    ELSE text

strip_nothing(text) == text

strip(text) == rstrip(lstrip(text))

handle_result_answer_only(hist, r, query, text, tool, smart) ==
    IF has_error(r) THEN hist
    ELSE hist \o << [role |-> "assistant", content |-> text] >>

\* The handler after process_query (smart) or process_basic_query returned
\* (r, text, tool): an error is shown and nothing is stored; otherwise the
\* turn is appended to the history, the tool trace only on the agent branch
\* and only if it is not blank.
handle_result(hist, r, query, text, tool, smart) ==
    IF has_error(r) THEN hist
    ELSE hist
         \o << [role |-> "user", content |-> query],
               [role |-> "assistant", content |-> text] >>
         \o (IF smart /\ strip(tool) # <<>>
             THEN << [role |-> "assistant_tool", content |-> tool] >>
             ELSE <<>>)

\* "".join(accumulated_tool_obj): nothing, blanks only (a partial_json chunk
\* of blanks), or the trace of a tool call.
ToolTraces == { <<>>, <<" ">>, <<"t">> }

\* What a graph run can do: exceed timeout_seconds, raise, or end in a final
\* state, with or without a last AIMessage that has content and no tool
\* calls, with or without streamed text.
RunOutcomes ==
    { [kind |-> k, last_ai |-> FALSE, streamed |-> FALSE, tool |-> <<>>] :
        k \in {"timeout", "raise"} }
    \cup { [kind |-> "done", last_ai |-> a, streamed |-> t, tool |-> tr] :
             a \in BOOLEAN, t \in BOOLEAN, tr \in ToolTraces }

\* The final text of a completed run (step 6 of process_query_smart).
extract_final_text(out) ==
    IF out.last_ai THEN "last_ai_message"
    ELSE IF out.streamed THEN "streaming_text"
    ELSE "apology"

\* The end of a turn: the locals of the handler are gone.
TurnEnds ==
    /\ turn_pc' = "idle"
    /\ user_query' = "none"
    /\ selected_workflow' = "none"
    /\ agent' = "none"

\* initialize_basic_model(), run at the top of every script run while the
\* basic model is not initialised: it may fail.
InitializeBasicModel ==
    /\ turn_pc = "idle"
    /\ ~basic_model_initialized
    /\ \E ok \in BOOLEAN : basic_model_initialized' = ok
    /\ UNCHANGED <<clsVars, sessVars, connVars, graphVars, history, turn_pc, user_query,
                   selected_workflow, agent, resp, turn_failure, hist_before,
                   n_turns>>

\* The conversation-reset button.
ResetConversation ==
    /\ turn_pc = "idle"
    /\ history' = <<>>
    /\ UNCHANGED <<clsVars, sessVars, connVars, graphVars, basic_model_initialized,
                   turn_pc, user_query, selected_workflow, agent, resp,
                   turn_failure, hist_before, n_turns>>

\* The texts the user types in the turns of Spec.
ChatInputs == {"q1"}

\* st.chat_input delivers a query: the handler takes the agent branch if the
\* session is initialised, the basic-model branch if only the basic model is,
\* and otherwise warns and ends.
SubmitQuery ==
    /\ turn_pc = "idle"
    /\ n_turns < MaxTurns
    /\ n_turns' = n_turns + 1
    /\ hist_before' = history
    /\ selected_workflow' = "none"
    /\ agent' = "none"
    /\ resp' = <<>>
    /\ turn_failure' = "none"
    /\ \E query \in ChatInputs :
         IF session_initialized \/ basic_model_initialized
         THEN /\ user_query' = query
              /\ turn_pc' = IF session_initialized THEN "smart" ELSE "basic"
         ELSE /\ user_query' = "none"
              /\ turn_pc' = "idle"
    /\ UNCHANGED <<clsVars, sessVars, connVars, graphVars, history,
                   basic_model_initialized>>

\* process_query_smart, steps 0 and 1: the session check (with the handler's
\* st.error if it fails) and WorkflowClassifier.select_workflow_type(query,
\* tools).
SelectWorkflow ==
    /\ turn_pc = "smart"
    /\ IF ~session_initialized
       THEN /\ resp' = ErrorDescriptor("agent not initialized")
            /\ TurnEnds
            /\ UNCHANGED clsVars
       ELSE /\ \E b \in LLMBehaviours : classify_step(user_query, b)
            /\ selected_workflow' = select_workflow_type(last_call'.result)
            /\ turn_pc' = "compile"
            /\ UNCHANGED <<resp, user_query, agent>>
    /\ UNCHANGED <<sessVars, connVars, graphVars, history, basic_model_initialized,
                   turn_failure, hist_before, n_turns>>

\* process_query_smart, step 2: the graph of the selected workflow is built
\* and compiled; an exception goes to the outer handler, the error descriptor
\* is returned and the handler shows it.
CompileGraph ==
    /\ turn_pc = "compile"
    /\ \E raises \in BOOLEAN :
         IF raises
         THEN /\ resp' = ErrorDescriptor("query processing error")
              /\ turn_failure' = "compile_raise"
              /\ history' = handle_result(history, resp', user_query,
                                          "query processing error", <<>>, TRUE)
              /\ TurnEnds
         ELSE /\ agent' = IF selected_workflow = "medical" THEN "medical"
                          ELSE "general"
              /\ turn_pc' = "run"
              /\ UNCHANGED <<resp, turn_failure, history, user_query,
                             selected_workflow>>
    /\ UNCHANGED <<clsVars, sessVars, connVars, graphVars, basic_model_initialized,
                   hist_before, n_turns>>

\* process_query_smart, steps 3 to 6: the run under asyncio.wait_for and what
\* is returned; then the handler.
RunGraph ==
    /\ turn_pc = "run"
    /\ \E out \in RunOutcomes :
         LET r == CASE out.kind = "timeout" ->
                         ErrorDescriptor("request exceeded timeout")
                    [] out.kind = "raise" ->
                         ErrorDescriptor("query processing error")
                    [] OTHER -> FinalState
             final_text ==
                 CASE out.kind = "timeout" -> "request exceeded timeout"
                   [] out.kind = "raise" -> "query processing error"
                   [] OTHER -> extract_final_text(out)
             final_tool == IF out.kind = "done" THEN out.tool ELSE <<>>
         IN /\ resp' = r
            /\ turn_failure' = CASE out.kind = "timeout" -> "graph_timeout"
                                 [] out.kind = "raise" -> "run_raise"
                                 [] OTHER -> "none"
            /\ history' = handle_result(history, r, user_query, final_text,
                                        final_tool, TRUE)
    /\ TurnEnds
    /\ UNCHANGED <<clsVars, sessVars, connVars, graphVars, basic_model_initialized,
                   hist_before, n_turns>>

\* What basic_model.ainvoke can do under asyncio.wait_for: exceed the
\* timeout, raise, or answer; response.content can be empty.
BasicOutputs ==
    { [kind |-> k, content |-> ""] : k \in {"timeout", "raise"} }
    \cup { [kind |-> "done", content |-> c] : c \in {"", "response_content"} }

\* process_basic_query, and the handler.
BasicQuery ==
    /\ turn_pc = "basic"
    /\ \E out \in BasicOutputs :
         LET r == IF ~basic_model_initialized
                  THEN ErrorDescriptor("basic model not initialized")
                  ELSE CASE out.kind = "timeout" ->
                              ErrorDescriptor("request exceeded timeout")
                         [] out.kind = "raise" ->
                              ErrorDescriptor("basic model error")
                         [] OTHER -> BasicSuccess
             final_text == IF has_error(r) THEN r.error ELSE out.content
         IN /\ resp' = r
            /\ turn_failure' =
                 IF ~basic_model_initialized THEN "none"
                 ELSE CASE out.kind = "timeout" -> "basic_timeout"
                        [] out.kind = "raise" -> "basic_raise"
                        [] OTHER -> "none"
            /\ history' = handle_result(history, r, user_query, final_text,
                                        <<>>, FALSE)
    /\ TurnEnds
    /\ UNCHANGED <<clsVars, sessVars, connVars, graphVars, basic_model_initialized,
                   hist_before, n_turns>>

Init ==
    /\ cache = <<>>
    /\ llm_calls = 0
    /\ n_calls = 0
    /\ last_call = NoCall
    /\ prev_call = NoCall
    /\ cache_gen = <<>>
    /\ response_content = <<>>
    /\ session_initialized = FALSE
    /\ available_tools = <<>>
    /\ conn_gen = 0
    /\ main_model = "none"
    /\ mcp_config = <<>>
    /\ tool_count = 0
    /\ server_status = <<>>
    /\ connection_logs = <<>>
    /\ op = "idle"
    /\ cfg = <<>>
    /\ attempt = 0
    /\ backoffs = 0
    /\ n_ops = 0
    /\ op_result = NoOpResult
    /\ scope_pc = "none"
    /\ next_idx = 0
    /\ all_tools = <<>>
    /\ server_sessions = {}
    /\ stack = <<>>
    /\ sessions_open = {}
    /\ pending_exc = "none"
    /\ outcome = <<>>
    /\ history = <<>>
    /\ basic_model_initialized = FALSE
    /\ turn_pc = "idle"
    /\ user_query = "none"
    /\ selected_workflow = "none"
    /\ agent = "none"
    /\ resp = <<>>
    /\ turn_failure = "none"
    /\ hist_before = <<>>
    /\ n_turns = 0
    /\ conversation_memory_turns = 8
    /\ inputs = <<>>
    /\ messages = <<>>
    /\ g_next = "idle"
    /\ executed = <<>>
    /\ dispatch = NoDispatch
    /\ accumulated_text = <<>>
    /\ accumulated_tool = <<>>
    /\ returned_text = <<>>
    /\ returned_tool = <<>>

Next ==
    \/ InitializeBasicModel
    \/ ResetConversation
    \/ SubmitQuery
    \/ SelectWorkflow
    \/ CompileGraph
    \/ RunGraph
    \/ BasicQuery
    \/ Reconnect
    \/ ReconnectFailed

Spec == Init /\ [][Next]_vars

\* ------------------------------------------------------------- a graph run
\* A message of the working state: SystemMessage, HumanMessage, AIMessage
\* (with the ids of its tool calls) or ToolMessage (with the id it answers).
SystemMessage(content) ==
    [type |-> "system", content |-> content, tool_calls |-> <<>>,
     tool_call_id |-> "none"]

HumanMessage(content) ==
    [type |-> "human", content |-> content, tool_calls |-> <<>>,
     tool_call_id |-> "none"]

AIMessage(content, tool_calls) ==
    [type |-> "ai", content |-> content, tool_calls |-> tool_calls,
     tool_call_id |-> "none"]

ToolMessage(content, tool_call_id) ==
    [type |-> "tool", content |-> content, tool_calls |-> <<>>,
     tool_call_id |-> tool_call_id]

\* The texts of the entries of a history, by turn: what the user typed, what
\* the assistant answered, the tool trace.
UserTexts == <<"u1", "u2", "u3", "u4", "u5", "u6">>

AssistantTexts == <<"a1", "a2", "a3", "a4", "a5", "a6">>

TraceTexts == <<"t1", "t2", "t3", "t4", "t5", "t6">>

\* The histories the handler can have stored after n turns: per turn a user
\* entry, an assistant entry and, on the agent branch, a tool trace if it is
\* not blank.
RECURSIVE HistoriesOf(_)
HistoriesOf(n) ==
    IF n = 0 THEN { <<>> }
    ELSE LET turn == << [role |-> "user", content |-> UserTexts[n]],
                        [role |-> "assistant", content |-> AssistantTexts[n]] >>
             trace == << [role |-> "assistant_tool", content |-> TraceTexts[n]] >>
         IN { h \o turn : h \in HistoriesOf(n - 1) }
            \cup { h \o turn \o trace : h \in HistoriesOf(n - 1) }

Histories == UNION { HistoriesOf(n) : n \in 0..MaxHistTurns }

\* The positions of the memory slider a run is checked with: its minimum and
\* its default.
MemoryTurns == {3, 8}

\* [msg for msg in history if msg["role"] in ["user", "assistant"]]
RECURSIVE filtered_history(_)
filtered_history(hist) ==
    IF hist = <<>> THEN <<>>
    ELSE (IF Head(hist).role \in {"user", "assistant"}
          THEN <<Head(hist)>> ELSE <<>>)
         \o filtered_history(Tail(hist))

recent_history_oldest(hist, max_turns) ==
    LET f == filtered_history(hist)
    IN IF Len(f) > max_turns * 2 THEN SubSeq(f, 1, max_turns * 2) ELSE f

\* filtered_history[-(max_turns*2):] if longer than max_turns*2, else all.
recent_history(hist, max_turns) ==
    LET f == filtered_history(hist)
    IN IF Len(f) > max_turns * 2
       THEN SubSeq(f, Len(f) - max_turns * 2 + 1, Len(f))
       ELSE f

\* convert_history_to_messages(history, max_turns): the system prompt, then
\* the recent entries as HumanMessage / AIMessage.
convert_history_to_messages(hist, max_turns) ==
    LET recent == recent_history(hist, max_turns)
    IN <<SystemMessage("system_prompt")>>
       \o [i \in 1..Len(recent) |->
             IF recent[i].role = "user"
             THEN HumanMessage(recent[i].content)
             ELSE AIMessage(recent[i].content, <<>>)]

\* inputs = {"messages": messages} of process_query_smart.
graph_inputs(hist, max_turns, query) ==
    Append(convert_history_to_messages(hist, max_turns), HumanMessage(query))

reducer_replaces(x, y) == y

\* The reducer of AgentState.messages: lambda x, y: x + y.
reducer(x, y) == x \o y

IsHuman(msg) == msg.type = "human"

IsTool(msg) == msg.type = "tool"

IsPlainAI(msg) == msg.type = "ai" /\ msg.tool_calls = <<>>

\* The loop conditions of format_korean_response.
IsContent(msg) ==
    \/ msg.type = "tool" /\ msg.content # ""
    \/ msg.type = "ai" /\ msg.content # "" /\ msg.tool_calls = <<>>

\* Is msg of the kind a loop over the messages looks for?
IsKind(msg, kind) ==
    CASE kind = "human" -> IsHuman(msg)
      [] kind = "tool" -> IsTool(msg)
      [] kind = "plain_ai" -> IsPlainAI(msg)
      [] kind = "content" -> IsContent(msg)
      [] kind = "content_ai" -> IsPlainAI(msg) /\ msg.content # ""

\* The position of the last message of a kind in msgs, 0 if there is none
\* (the for loops over reversed(messages)).
last_index(msgs, kind) ==
    LET S == { i \in 1..Len(msgs) : IsKind(msgs[i], kind) }
    IN IF S = {} THEN 0 ELSE CHOOSE i \in S : \A j \in S : j <= i

\* What a call of a model can do: raise, or answer.  The text of a translator
\* answer is response.content.strip(), which can be empty.
TranslatorOutputs ==
    { [kind |-> "raise", text |-> ""] }
    \cup { [kind |-> "ok", text |-> t] : t \in {"", "translated"} }

\* What model.bind_tools(tools).ainvoke(messages) can do: raise, or answer
\* with an AIMessage with or without content and with zero, one or two tool
\* calls.
AgentOutputs ==
    { [kind |-> "raise", content |-> "", tool_calls |-> <<>>] }
    \cup { [kind |-> "ok", content |-> c, tool_calls |-> tc] :
             c \in {"", "answer"}, tc \in { <<>>, <<"call_1">>, <<"call_1", "call_2">> } }

\* How the tool node ends (the kinds of ActionDone), with the content of the
\* tool results when there are any.
ActionOutputs ==
    { [kind |-> k, content |-> ""] :
        k \in {"error_message", "none_returned", "cancelled"} }
    \cup { [kind |-> "tool_messages", content |-> c] : c \in {"", "tool_result"} }

\* translate_to_english(state, translator_model): the update it returns.
translate_to_english(msgs, out) ==
    IF last_index(msgs, "human") = 0 THEN <<>>
    ELSE Append(SubSeq(msgs, 1, Len(msgs) - 1), HumanMessage(out.text))

\* call_model(state, model): the update it returns.
call_model(msgs, out) == << AIMessage(out.content, out.tool_calls) >>

\* safe_tool_node / simple_tool_node: the update returned.  ToolNode answers
\* every tool call of the last message with one ToolMessage; the except
\* branch returns the synthetic message; without fresh tools the node returns
\* None, which updates nothing.
tool_node(msgs, out) ==
    CASE out.kind = "tool_messages" ->
           LET calls == msgs[Len(msgs)].tool_calls
           IN [i \in 1..Len(calls) |-> ToolMessage(out.content, calls[i])]
      [] out.kind = "error_message" ->
           << ToolMessage("tool execution error", "error") >>
      [] OTHER -> <<>>

content_of_tool_only(msgs) ==
    LET lt == last_index(msgs, "tool")
    IN IF lt # 0 THEN msgs[lt].content ELSE ""

\* translate_to_korean: the content it translates, "" if it finds none.
content_to_translate(msgs) ==
    LET lt == last_index(msgs, "tool")
        la == last_index(msgs, "plain_ai")
    IN IF lt # 0 /\ msgs[lt].content # "" THEN msgs[lt].content
       ELSE IF la # 0 /\ msgs[la].content # "" THEN msgs[la].content
       ELSE ""

\* The contents translate_to_korean can be given, and the Korean rendering
\* the translator model gives of each.
SourceTexts ==
    <<"tool_result", "tool execution error", "answer">> \o AssistantTexts

KoreanTexts ==
    <<"ko_tool_result", "ko_tool execution error", "ko_answer",
      "ko_a1", "ko_a2", "ko_a3", "ko_a4", "ko_a5", "ko_a6">>

korean(content) ==
    KoreanTexts[CHOOSE i \in 1..Len(SourceTexts) : SourceTexts[i] = content]

\* translate_to_korean(state, translator_model): the update it returns.  The
\* model's answer is the rendering of the content in the prompt, or empty.
translate_to_korean(msgs, out) ==
    IF content_to_translate(msgs) = ""
    THEN << AIMessage("sorry, nothing to translate", <<>>) >>
    ELSE IF out.kind = "raise"
    THEN << AIMessage("error during translation", <<>>) >>
    ELSE << AIMessage(IF out.text = "" THEN ""
                      ELSE korean(content_to_translate(msgs)), <<>>) >>

\* korean_direct_answer(state, translator_model): the update it returns.
korean_direct_answer(msgs, out) ==
    IF last_index(msgs, "human") = 0 THEN <<>>
    ELSE << AIMessage(out.text, <<>>) >>

format_newest_message(msgs) ==
    << AIMessage(msgs[Len(msgs)].content, <<>>) >>

\* format_korean_response(state): the update it returns.
format_korean_response(msgs) ==
    LET i == last_index(msgs, "content")
    IN IF i # 0 THEN << AIMessage(msgs[i].content, <<>>) >>
       ELSE << AIMessage("sorry, no response", <<>>) >>

\* The conditional edges.
should_continue_or_answer_medical(msgs) ==
    IF msgs[Len(msgs)].type = "ai" /\ msgs[Len(msgs)].tool_calls # <<>>
    THEN "continue" ELSE "direct_answer"

should_always_continue(msgs) == "continue"

should_continue_or_answer_general(msgs) ==
    IF msgs[Len(msgs)].type = "ai" /\ msgs[Len(msgs)].tool_calls # <<>>
    THEN "continue" ELSE "direct_answer"

after_action_loops(msgs) == "agent"

after_action_medical(msgs) == "translate"

\* {"continue": "action", "direct_answer": "direct_answer"}
agent_edges(route) == IF route = "continue" THEN "action" ELSE "direct_answer"

action_edges_back(route) == "agent"

\* {"agent": "agent", "translate": "translate_to_korean"}
action_edges_medical(route) ==
    IF route = "agent" THEN "agent" ELSE "translate_to_korean"

\* A text is the sequence of its parts; the text of a message content is
\* <<content>>.
\* The tool buffer's piece for a content: the content between the opening
\* and the closing line of a json code fence.
fenced(content) == <<"json_fence_open", content, "fence_close">>

\* The two buffers of get_streaming_callback.
Buffers == [text |-> accumulated_text, tool |-> accumulated_tool]

callback_text_only(buf, msgs) ==
    LET message_content == msgs[Len(msgs)]
    IN IF message_content.content # "" /\ message_content.type \in {"ai", "tool"}
       THEN [buf EXCEPT !.text = Append(@, << message_content.content >>)]
       ELSE buf

\* callback_func({"content": final_state["messages"][-1]}) of astream_graph
\* on the buffers buf, for the snapshot msgs.  The snapshots of
\* stream_mode="values" hold AIMessage objects, never AIMessageChunk.
callback_func(buf, msgs) ==
    LET message_content == msgs[Len(msgs)]
    IN IF message_content.type = "ai"
       THEN IF message_content.content # "" /\ message_content.tool_calls = <<>>
            THEN [buf EXCEPT !.text = Append(@, << message_content.content >>)]
            ELSE buf
       ELSE IF message_content.type = "tool"
       THEN [buf EXCEPT !.tool = Append(@, fenced(message_content.content))]
       ELSE buf

\* Does graph.astream yield a snapshot after a node?  After an update that
\* writes messages it does; whether it does after a node that returned None
\* depends on the version of the graph library.
SnapshotEmitted(update) == IF update = <<>> THEN BOOLEAN ELSE {TRUE}

\* "".join(pieces) of the pieces of a buffer: their texts, one after the
\* other.
RECURSIVE join(_)
join(pieces) ==
    IF pieces = <<>> THEN <<>>
    ELSE Head(pieces) \o join(Tail(pieces))

\* A node ran and returned update: the reducer merges it, and the run goes to
\* node next.
NodeReturns(node, update, next) ==
    /\ messages' = reducer(messages, update)
    /\ executed' = Append(executed, node)
    /\ g_next' = next
    /\ \E emitted \in SnapshotEmitted(update) :
         IF emitted
         THEN LET buf == callback_func(Buffers, reducer(messages, update))
              IN /\ accumulated_text' = buf.text
                 /\ accumulated_tool' = buf.tool
         ELSE UNCHANGED <<accumulated_text, accumulated_tool>>

\* An exception left the node: the run is over, nothing is merged.
NodeRaises(node) ==
    /\ messages' = messages
    /\ executed' = Append(executed, node)
    /\ g_next' = "raised"
    /\ UNCHANGED <<accumulated_text, accumulated_tool>>

\* process_query_smart, step 4 and the start of step 5: the input of the run
\* is built from the history and the query.
StartRun ==
    /\ g_next = "idle"
    /\ turn_pc = "run"
    /\ inputs' = graph_inputs(history, conversation_memory_turns, user_query)
    /\ messages' = graph_inputs(history, conversation_memory_turns, user_query)
    /\ g_next' = IF agent = "medical" THEN "translate_to_english" ELSE "agent"
    /\ executed' = <<>>
    /\ dispatch' = NoDispatch
    /\ LET buf == callback_func([text |-> <<>>, tool |-> <<>>],
                                graph_inputs(history, conversation_memory_turns,
                                             user_query))
       IN /\ accumulated_text' = buf.text
          /\ accumulated_tool' = buf.tool
    /\ UNCHANGED <<clsVars, sessVars, connVars, turnVars,
                   conversation_memory_turns, returned_text, returned_tool>>

TranslateToEnglish ==
    /\ g_next = "translate_to_english"
    /\ \E out \in TranslatorOutputs :
         IF out.kind = "raise" /\ last_index(messages, "human") # 0
         THEN NodeRaises("translate_to_english")
         ELSE NodeReturns("translate_to_english",
                          translate_to_english(messages, out), "agent")
    /\ UNCHANGED <<clsVars, sessVars, connVars, turnVars,
                   conversation_memory_turns, inputs, dispatch,
                   returned_text, returned_tool>>

\* The agent node: call_model in the medical graph, korean_agent (which adds
\* a system prompt to the model's input if the state has none) in the general
\* one.
Agent ==
    /\ g_next = "agent"
    /\ \E out \in AgentOutputs :
         IF out.kind = "raise"
         THEN NodeRaises("agent")
         ELSE LET after == reducer(messages, call_model(messages, out))
                  route == IF agent = "medical"
                           THEN should_continue_or_answer_medical(after)
                           ELSE should_continue_or_answer_general(after)
              IN NodeReturns("agent", call_model(messages, out),
                             agent_edges(route))
    /\ UNCHANGED <<clsVars, sessVars, connVars, turnVars,
                   conversation_memory_turns, inputs, dispatch,
                   returned_text, returned_tool>>

\* The action node: safe_tool_node in the medical graph, simple_tool_node in
\* the general one.  A cancellation is no Exception: it leaves the node.
Action ==
    /\ g_next = "action"
    /\ \E out \in ActionOutputs :
         /\ dispatch' = [kind |-> out.kind, update |-> tool_node(messages, out)]
         /\ IF out.kind = "cancelled"
            THEN NodeRaises("action")
            ELSE LET after == reducer(messages, tool_node(messages, out))
                 IN NodeReturns("action", tool_node(messages, out),
                                IF agent = "medical"
                                THEN action_edges_medical(after_action_medical(after))
                                ELSE "format_response")
    /\ UNCHANGED <<clsVars, sessVars, connVars, turnVars,
                   conversation_memory_turns, inputs, returned_text, returned_tool>>

TranslateToKorean ==
    /\ g_next = "translate_to_korean"
    /\ \E out \in TranslatorOutputs :
         NodeReturns("translate_to_korean",
                     translate_to_korean(messages, out), "END")
    /\ UNCHANGED <<clsVars, sessVars, connVars, turnVars,
                   conversation_memory_turns, inputs, dispatch,
                   returned_text, returned_tool>>

DirectAnswer ==
    /\ g_next = "direct_answer"
    /\ \E out \in TranslatorOutputs :
         IF out.kind = "raise" /\ last_index(messages, "human") # 0
         THEN NodeRaises("direct_answer")
         ELSE NodeReturns("direct_answer",
                          korean_direct_answer(messages, out), "END")
    /\ UNCHANGED <<clsVars, sessVars, connVars, turnVars,
                   conversation_memory_turns, inputs, dispatch,
                   returned_text, returned_tool>>

FormatResponse ==
    /\ g_next = "format_response"
    /\ NodeReturns("format_response", format_korean_response(messages), "END")
    /\ UNCHANGED <<clsVars, sessVars, connVars, turnVars,
                   conversation_memory_turns, inputs, dispatch,
                   returned_text, returned_tool>>

final_text_streamed_first(msgs, streaming_text) ==
    LET i == last_index(msgs, "content_ai")
    IN IF streaming_text # <<>> THEN streaming_text
       ELSE IF i # 0 THEN << msgs[i].content >>
       ELSE << "sorry, error while generating the response" >>

\* Step 6 of process_query_smart after the run ended: the final text is the
\* content of the last AIMessage with content and without tool calls, else
\* the streamed text, else the fixed apology; the final tool trace is the
\* joined tool buffer.
final_text_of(msgs, streaming_text) ==
    LET i == last_index(msgs, "content_ai")
    IN IF i # 0 THEN << msgs[i].content >>
       ELSE IF streaming_text # <<>> THEN streaming_text
       ELSE << "sorry, error while generating the response" >>

ExtractResult ==
    /\ g_next = "END"
    /\ returned_text = <<>>
    /\ returned_text' = final_text_of(messages, join(accumulated_text))
    /\ returned_tool' = join(accumulated_tool)
    /\ UNCHANGED <<clsVars, sessVars, connVars, turnVars,
                   conversation_memory_turns, inputs, messages, g_next,
                   executed, dispatch, accumulated_text, accumulated_tool>>

\* A session at step 4 of process_query_smart: initialised, with any history
\* the earlier turns can have left, a query, and the graph of the selected
\* workflow compiled.
InitGraph ==
    /\ cache = <<>>
    /\ llm_calls = 0
    /\ n_calls = 0
    /\ last_call = NoCall
    /\ prev_call = NoCall
    /\ cache_gen = <<>>
    /\ response_content = <<>>
    /\ session_initialized = TRUE
    /\ available_tools = << [name |-> "pubmed_search", gen |-> 1] >>
    /\ conn_gen = 1
    /\ main_model = "set"
    /\ mcp_config = <<>>
    /\ tool_count = 1
    /\ server_status = <<>>
    /\ connection_logs = <<>>
    /\ op = "idle"
    /\ cfg = <<>>
    /\ attempt = 0
    /\ backoffs = 0
    /\ n_ops = 0
    /\ op_result = NoOpResult
    /\ scope_pc = "none"
    /\ next_idx = 0
    /\ all_tools = <<>>
    /\ server_sessions = {}
    /\ stack = <<>>
    /\ sessions_open = {}
    /\ pending_exc = "none"
    /\ outcome = <<>>
    /\ history \in Histories
    /\ basic_model_initialized = TRUE
    /\ turn_pc = "run"
    /\ user_query \in ChatInputs
    /\ selected_workflow \in {"medical", "general"}
    /\ agent = selected_workflow
    /\ resp = <<>>
    /\ turn_failure = "none"
    /\ hist_before = history
    /\ n_turns = 1
    /\ conversation_memory_turns \in MemoryTurns
    /\ inputs = <<>>
    /\ messages = <<>>
    /\ g_next = "idle"
    /\ executed = <<>>
    /\ dispatch = NoDispatch
    /\ accumulated_text = <<>>
    /\ accumulated_tool = <<>>
    /\ returned_text = <<>>
    /\ returned_tool = <<>>

NextGraph ==
    \/ StartRun
    \/ TranslateToEnglish
    \/ Agent
    \/ Action
    \/ TranslateToKorean
    \/ DirectAnswer
    \/ FormatResponse
    \/ ExtractResult

SpecGraph == InitGraph /\ [][NextGraph]_vars

\* The run under the scheduling of the event loop: a node that can run does.
SpecGraphLive == SpecGraph /\ WF_vars(NextGraph)

\* ------------------------------------------------------- claims on a turn
\* C1: while a turn is handled nothing of it is in the history, and a turn
\* that ends with a turn-level failure (the graph run exceeds the timeout, or
\* an exception escapes the compilation or the run of the graph, or the
\* basic model times out or raises) hands the handler a result with the key
\* "error" and leaves the history exactly as it was before the turn.
C1_FailedTurnNotPersisted ==
    /\ [](turn_pc # "idle" => history = hist_before)
    /\ [][(turn_pc # "idle" /\ turn_pc' = "idle" /\ turn_failure' # "none")
            => /\ "error" \in DOMAIN resp'
               /\ history' = history
               /\ history' = hist_before']_vars

\* C1's case: a turn of the agent branch ended because the graph run exceeded
\* the timeout; the handler has run.
C1_Witness ==
    /\ turn_pc = "idle"
    /\ n_turns > 0
    /\ turn_failure = "graph_timeout"
    /\ "error" \in DOMAIN resp
    /\ history = hist_before

C2_ClassifierSafety ==
    (/\ last_call.invoked
     /\ \/ last_call.kind \in {"timeout", "raise"}
        \/ last_call.kind = "response" /\ ~last_call.json_ok)
    => /\ last_call.result.workflow = "general"
       /\ last_call.result.method \in {"fallback", "error"}

\* C4 (as stated): of two successive calls with the same query and the same
\* catalog, the second returns what the first returned and invokes no model,
\* whatever the first call's outcome was.
C4_CacheCorrectness ==
    (/\ prev_call.kind # "none"
     /\ last_call.query = prev_call.query
     /\ last_call.tools = prev_call.tools)
    => /\ last_call.result = prev_call.result
       /\ ~last_call.invoked

\* C5 (as stated): after any classify_workflow call has returned, the cache
\* maps the call's key to the result the call returned.
C5_CachedBeforeReturn ==
    last_call.kind # "none"
    => /\ last_call.key \in DOMAIN cache
       /\ cache[last_call.key] = last_call.result

\* C6 (as stated): a result served from the cache was stored under the
\* connection the call is made under: no entry stored before a reconnect is
\* returned after it.
C6_NoHitAcrossReconnect ==
    last_call.kind = "cached" => cache_gen[last_call.key] = last_call.gen

\* C7 (as stated): medical is returned only as an accepted JSON verdict whose
\* confidence is not low (at least 0.5); never from the text fallback.
C7_BiasRule ==
    last_call.result.workflow = "medical"
    => /\ last_call.result.method = "llm"
       /\ last_call.result.confidence >= 5

\* ---------------------------------------- claims on the connection manager
\* The catalog of a scope: the tools of the servers that connected, in the
\* order of the configuration.
RECURSIVE ExpectedCatalog(_, _, _)
ExpectedCatalog(servers, outc, gen) ==
    IF servers = <<>> THEN <<>>
    ELSE (IF outc[Head(servers)].kind = "ok"
          THEN load_mcp_tools(Head(servers), outc[Head(servers)].k, gen)
          ELSE <<>>)
         \o ExpectedCatalog(Tail(servers), outc, gen)

ServersOf(c) == { c[i] : i \in 1..Len(c) }

\* C8: whatever subset of the configured servers fails to connect, the loop
\* of connect_all_mcp_servers runs to its yield without raising (the scope is
\* left only after the caller's body ran); at the yield every configured
\* server was tried, the catalog is exactly the tools of the servers that
\* connected, exactly the failing servers are recorded failed and exactly the
\* others connected, with their tool counts; and so the records stay while the
\* scope is left with no exception in flight.
C8_PartialConnect ==
    /\ scope_pc \in {"connecting", "dialing"} =>
          /\ pending_exc = "none"
          /\ DOMAIN outcome = { cfg[i] : i \in 1..(next_idx - 1) }
    /\ scope_pc = "exiting" => op_result.kind # "none"
    /\ scope_pc = "yielded" =>
          /\ pending_exc = "none"
          /\ DOMAIN outcome = ServersOf(cfg)
          /\ all_tools = ExpectedCatalog(cfg, outcome, ScopeGen)
          /\ server_sessions = { s \in ServersOf(cfg) : outcome[s].kind = "ok" }
          /\ \A s \in ServersOf(cfg) :
                IF outcome[s].kind = "ok"
                THEN /\ server_status[s].status = "connected"
                     /\ server_status[s].tools_count = outcome[s].k
                ELSE server_status[s].status = "failed"
    /\ (scope_pc = "exiting" /\ pending_exc = "none") =>
          \A s \in ServersOf(cfg) :
             server_status[s].status =
                IF outcome[s].kind = "ok" THEN "connected" ELSE "failed"

\* C8's case: a scope at its yield in which one server failed its handshake
\* and another delivered a tool.
C8_Witness ==
    /\ scope_pc = "yielded"
    /\ \E s \in ServersOf(cfg) : outcome[s].kind \in {"timeout", "init_error"}
    /\ \E s \in ServersOf(cfg) : outcome[s].kind = "ok" /\ outcome[s].k > 0
    /\ all_tools # <<>>

\* C9 (as stated): get_tools_with_retry returns after its first attempt only
\* if that attempt delivered a catalog that is not empty.
C9_RetryOnEmpty ==
    (op_result.kind \in {"returning", "init_no_tools", "init_ok"}
       /\ op_result.attempts = 1)
    => op_result.tools # <<>>

\* C10: in a scope, every server that connected has its session open until
\* the scope is left, whatever its later siblings did; while the scope is
\* left the sessions are closed in turn; and outside a scope no session is
\* open, whether the scope was left normally or by an exception.
C10_ScopedSessions ==
    /\ scope_pc \in {"connecting", "dialing", "yielded"} =>
          sessions_open = { s \in DOMAIN outcome : outcome[s].kind = "ok" }
    /\ scope_pc = "exiting" => sessions_open = ServersOf(stack)
    /\ scope_pc \in {"none", "enter"} => sessions_open = {}

\* C10's case: a scope in which the first server connected and a later one
\* failed, left by an exception, with every context exited.
C10_Witness ==
    /\ scope_pc = "exiting"
    /\ stack = <<>>
    /\ pending_exc = "Exception"
    /\ op_result.kind = "raised"
    /\ \E s, t \in ServersOf(cfg) :
          /\ s < t
          /\ outcome[s].kind = "ok"
          /\ outcome[t].kind # "ok"
    /\ sessions_open = {}

\* C11 (as stated): the servers of one connect_all_mcp_servers call are
\* dialed together: while the handshake of one server is in progress, the
\* handshake of every configured server has been started (a slow server does
\* not hold back the start of the next one).  The servers started are those
\* at the positions up to next_idx of the configuration.
C11_DialedTogether ==
    scope_pc = "dialing" => \A i \in 1..Len(cfg) : i <= next_idx

\* ------------------------------------------------ claims on a graph run
\* The nodes of a run are pairwise different.
NoNodeTwice ==
    \A i, j \in 1..Len(executed) : i # j => executed[i] # executed[j]

\* C12: every run of either graph ends: it reaches END, or an exception left
\* a node; a run executes at most 5 nodes in the medical graph and at most 4
\* in the general graph, and no node twice, whatever the models and the tool
\* node return.
C12_GraphTerminates ==
    /\ [](Len(executed) <= IF agent = "medical" THEN 5 ELSE 4)
    /\ []NoNodeTwice
    /\ [](g_next = "raised" => executed # <<>>)
    /\ <>(g_next \in {"END", "raised"})

\* C12's case: a run of the medical graph went through the tool node and
\* reached END.
C12_Witness ==
    /\ g_next = "END"
    /\ agent = "medical"
    /\ Len(executed) = 4
    /\ executed[3] = "action"

\* Is p a prefix of q?
IsPrefix(p, q) == Len(p) <= Len(q) /\ SubSeq(q, 1, Len(p)) = p

MedicalToolPath ==
    <<"translate_to_english", "agent", "action", "translate_to_korean">>

MedicalDirectPath == <<"translate_to_english", "agent", "direct_answer">>

\* C13: a run of the medical graph visits translate_to_english, then agent,
\* then either action and translate_to_korean, or direct_answer, and then
\* END; after action the next node is translate_to_korean, never agent, so
\* the agent node runs at most once, and exactly once in a run that reaches
\* END.
C13_SingleToolRound ==
    agent = "medical" =>
      /\ IsPrefix(executed, MedicalToolPath) \/ IsPrefix(executed, MedicalDirectPath)
      /\ g_next = "END" => executed \in {MedicalToolPath, MedicalDirectPath}
      /\ (executed # <<>> /\ executed[Len(executed)] = "action")
            => g_next \in {"translate_to_korean", "raised"}
      /\ Cardinality({ i \in 1..Len(executed) : executed[i] = "agent" }) <= 1
      /\ (g_next \notin {"idle", "raised"} /\ executed # <<>>)
            => g_next = (IF executed = <<"translate_to_english">> THEN "agent"
                         ELSE IF executed[Len(executed)] = "agent"
                         THEN (IF messages[Len(messages)].tool_calls # <<>>
                               THEN "action" ELSE "direct_answer")
                         ELSE IF executed[Len(executed)] = "action"
                         THEN "translate_to_korean"
                         ELSE "END")

\* C13's case: the tool node of a medical run returned tool results, and the
\* run goes on to the Korean translation.
C13_Witness ==
    /\ agent = "medical"
    /\ executed = <<"translate_to_english", "agent", "action">>
    /\ dispatch.kind = "tool_messages"
    /\ g_next = "translate_to_korean"

\* The tool node ended without running the tools: the connection scope raised
\* or the tools did (error_message), or the fresh connect gave no tools
\* (none_returned).
DispatchFailed == dispatch.kind \in {"error_message", "none_returned"}

\* C14 (as stated): whenever the action node cannot re-establish the tool
\* connection (also when the fresh connect yields no tools) or the tool
\* execution raises, the node does not raise and appends exactly one
\* ToolMessage with the error text and the call id "error"; the run goes on
\* to the node after action.
C14_DispatchFailureAnswered ==
    DispatchFailed =>
      /\ g_next # "raised" \/ executed[Len(executed)] # "action"
      /\ Len(dispatch.update) = 1
      /\ dispatch.update[1].type = "tool"
      /\ dispatch.update[1].tool_call_id = "error"
      /\ dispatch.update[1].content # ""
      /\ executed[Len(executed)] = "action"
            => g_next = (IF agent = "medical" THEN "translate_to_korean"
                         ELSE "format_response")

\* The position of the AIMessage with tool calls the agent node returned, 0
\* if there is none.
IsToolCallAI(msg) == msg.type = "ai" /\ msg.tool_calls # <<>>

\* Is the tool-call message at position p answered: one ToolMessage after it
\* for each of its calls, or the synthetic one?
Answered(msgs, p) ==
    \/ \A c \in 1..Len(msgs[p].tool_calls) :
         \E j \in (p + 1)..Len(msgs) :
            msgs[j].type = "tool" /\ msgs[j].tool_call_id = msgs[p].tool_calls[c]
    \/ \E j \in (p + 1)..Len(msgs) :
         msgs[j].type = "tool" /\ msgs[j].tool_call_id = "error"

\* C15 (as stated): after the action node completed, every tool call of the
\* pending AIMessage has its ToolMessage (or there is the single synthetic
\* one), so a run at END has no AIMessage with tool calls without its
\* ToolMessages; and at no point of a run is there more than one unanswered
\* AIMessage with tool calls.
C15_ToolCallsAnswered ==
    LET pending == { p \in 1..Len(messages) :
                       IsToolCallAI(messages[p]) /\ ~Answered(messages, p) }
    IN /\ Cardinality(pending) <= 1
       /\ ("action" \in { executed[i] : i \in 1..Len(executed) }
           /\ dispatch.kind # "cancelled") => pending = {}
       /\ g_next = "END" => pending = {}

\* C16 (as stated): when the model call of translate_to_english or of
\* translate_to_korean raises, the node catches the error and returns a
\* message in place of the translation, so no exception leaves either node
\* and the medical run still reaches END.
C16_TranslationErrorsAbsorbed ==
    (agent = "medical" /\ g_next = "raised")
    => executed[Len(executed)] \notin {"translate_to_english", "translate_to_korean"}

\* C17 (as stated): after translate_to_english completed, the state has the
\* length it had before the node ran, holds the translation where the query
\* was, no longer holds the text of the query, and holds every earlier
\* message exactly once.
C17_ReplacedInPlace ==
    (executed = <<"translate_to_english">> /\ g_next = "agent")
    => /\ Len(messages) = Len(inputs)
       /\ messages[Len(messages)].type = "human"
       /\ \A j \in 1..Len(messages) : messages[j].content # user_query
       /\ \A i \in 1..(Len(inputs) - 1) :
            Cardinality({ j \in 1..Len(messages) : messages[j] = inputs[i] }) = 1

\* -------------------------------------------- claims on the stored history
\* A step that ends a turn: the handler of a query returns.
TurnEndsNow == turn_pc # "idle" /\ turn_pc' = "idle"

C20_NoBlankResponse ==
    /\ \A i \in 1..Len(history) :
         history[i].role = "assistant" => history[i].content # ""
    /\ has_error(resp) => resp.error # ""

\* ------------------------------------------- claims on the input of a run
\* The positions of the user and assistant entries of the stored history.
DialoguePositions ==
    { i \in 1..Len(history) : history[i].role \in {"user", "assistant"} }

\* The position in the history of the k-th user or assistant entry.
DialoguePosition(k) ==
    CHOOSE p \in DialoguePositions :
        Cardinality({ q \in DialoguePositions : q <= p }) = k

\* The number of prior entries a run is given: min(n, 2 * max_turns).
WindowSize ==
    IF Cardinality(DialoguePositions) <= 2 * conversation_memory_turns
    THEN Cardinality(DialoguePositions)
    ELSE 2 * conversation_memory_turns

\* C19: the input of a run is the system prompt, then the most recent
\* min(n, 2 * max_turns) user and assistant entries of the history, in their
\* order, as human and AI messages with the same content, and last the new
\* query; no tool-trace entry is among them.
C19_HistoryWindow ==
    g_next # "idle" =>
      LET n == Cardinality(DialoguePositions)
          k == WindowSize
      IN /\ Len(inputs) = k + 2
         /\ inputs[1].type = "system"
         /\ inputs[Len(inputs)] = HumanMessage(user_query)
         /\ \A i \in 1..k :
              LET entry == history[DialoguePosition(n - k + i)]
              IN /\ inputs[i + 1].content = entry.content
                 /\ inputs[i + 1].type =
                      (IF entry.role = "user" THEN "human" ELSE "ai")
                 /\ inputs[i + 1].tool_calls = <<>>
         /\ \A i \in 1..Len(inputs), j \in 1..Len(history) :
              history[j].role = "assistant_tool"
                => inputs[i].content # history[j].content

\* C19's case: the history has more user and assistant entries than the
\* window takes, and a tool trace among the entries of the window.
C19_Witness ==
    /\ g_next # "idle"
    /\ Cardinality(DialoguePositions) > 2 * conversation_memory_turns
    /\ \E j \in 1..Len(history) :
         /\ history[j].role = "assistant_tool"
         /\ j > DialoguePosition(Cardinality(DialoguePositions) - WindowSize + 1)
    /\ Len(inputs) = 2 * conversation_memory_turns + 2

\* ------------------------------------------- claims on the path of a turn
\* A step in which the handler takes a query.
QuerySubmitted == turn_pc = "idle" /\ n_turns' = n_turns + 1

\* C21 (as stated): with an empty tool catalog a query is still handled on
\* the agent branch, where it is classified and run by the general graph.
C21_EmptyCatalogUsesGraph ==
    [][(QuerySubmitted /\ available_tools = <<>>) => turn_pc' = "smart"]_vars

\* C21 (amended): a session is initialised only with a catalog that is not
\* empty, and only an initialised session classifies a query and runs a
\* graph; with an empty catalog the query goes to the basic model if that is
\* initialised, and otherwise the handler only warns; on the basic-model
\* branch nothing is classified and no graph is selected.
C21_EmptyCatalogUsesBasicModel ==
    /\ [](session_initialized => available_tools # <<>>)
    /\ [](turn_pc \in {"smart", "compile", "run"}
            => session_initialized /\ available_tools # <<>>)
    /\ [][(QuerySubmitted /\ (available_tools = <<>> \/ ~session_initialized))
            => turn_pc' = (IF basic_model_initialized THEN "basic" ELSE "idle")]_vars
    /\ [][turn_pc = "basic"
            => /\ UNCHANGED <<cache, llm_calls, n_calls, last_call>>
               /\ selected_workflow' = "none"
               /\ agent' = "none"
               /\ turn_pc' = "idle"]_vars

\* C21's case: with an empty catalog a query was taken, and the basic model
\* answered it; nothing was classified.
C21_Witness ==
    /\ available_tools = <<>>
    /\ ~session_initialized
    /\ n_turns > 0
    /\ turn_pc = "idle"
    /\ resp = BasicSuccess
    /\ n_calls = 0
    /\ history # <<>>

\* ---------------------------------- claims on the records of the servers
\* C22 (as stated): the connection log is append-only: no step removes or
\* clears an entry (the log before a step is a prefix of the log after it),
\* and a step that changes the status map appends to the log.
C22_LogAppendOnly ==
    [][/\ IsPrefix(connection_logs, connection_logs')
       /\ server_status' # server_status
            => Len(connection_logs') > Len(connection_logs)]_vars

\* A step that starts a connect operation on a configuration.
OperationStarts == op = "idle" /\ op' # "idle"

\* C23 (as stated): no step deletes a record of the status map, and the
\* servers of a configuration have their records before the first connect of
\* it starts (from configuration load on).
C23_RecordsNeverDeleted ==
    [][/\ DOMAIN server_status \subseteq DOMAIN server_status'
       /\ OperationStarts => ServersOf(cfg') \subseteq DOMAIN server_status]_vars

\* C23 (amended): the records of the servers of a configuration exist from
\* the start of the first operation on it and for as long as it runs; a
\* step deletes records only if it is the apply button, which empties the
\* map and records every server of the applied configuration connecting; no
\* other step (connect, reconnect, tool dispatch) deletes a record.
C23_RecordsKeptUntilApply ==
    /\ [](op # "idle" => ServersOf(cfg) \subseteq DOMAIN server_status)
    /\ [][/\ OperationStarts => ServersOf(cfg') \subseteq DOMAIN server_status'
          /\ ~(DOMAIN server_status \subseteq DOMAIN server_status')
               => /\ op = "idle" /\ op' = "init"
                  /\ DOMAIN server_status' = ServersOf(cfg')
                  /\ \A s \in ServersOf(cfg') :
                       server_status'[s].status = "connecting"
                  /\ ~session_initialized']_vars

\* C23's case: a session was initialised on two servers, then settings with
\* one server were applied: the record of the other server is gone.
C23_Witness ==
    /\ op = "init"
    /\ Len(mcp_config) = 2
    /\ Len(cfg) = 1
    /\ DOMAIN server_status = ServersOf(cfg)

\* --------------------------------------- claims on the result of a run
\* The positions of the AIMessages of the final state that have content and
\* no tool calls.
AnswerPositions ==
    { i \in 1..Len(messages) :
        /\ messages[i].type = "ai"
        /\ messages[i].content # ""
        /\ messages[i].tool_calls = <<>> }

\* C24: when process_query_smart has extracted the result of a completed
\* run, the final text is the content of the last AIMessage of the final
\* state that has content and no tool calls, whatever was streamed; only if
\* there is no such message it is the streamed text, and if nothing was
\* streamed either, the fixed message; the final tool trace is the joined
\* tool buffer.
C24_FinalAnswerSelection ==
    returned_text # <<>> =>
      /\ g_next = "END"
      /\ AnswerPositions # {} =>
            \E i \in AnswerPositions :
               /\ \A j \in AnswerPositions : j <= i
               /\ returned_text = << messages[i].content >>
      /\ (AnswerPositions = {} /\ accumulated_text # <<>>) =>
            returned_text = join(accumulated_text)
      /\ (AnswerPositions = {} /\ accumulated_text = <<>>) =>
            returned_text = << "sorry, error while generating the response" >>
      /\ Len(returned_tool) = 3 * Len(accumulated_tool)
      /\ \A k \in 1..Len(accumulated_tool) :
            SubSeq(returned_tool, 3 * k - 2, 3 * k) = accumulated_tool[k]

\* C24's case: a run ended in which two answers were streamed (the agent's
\* and the direct answer); the final text is the last answer, not the
\* streamed text.
C24_Witness ==
    /\ returned_text # <<>>
    /\ Len(accumulated_text) >= 2
    /\ returned_text # join(accumulated_text)
    /\ AnswerPositions # {}

\* ------------------------------------------------ claims on the nodes
\* C25: the state after the update of a node has the state before it as a
\* prefix: the messages of an update are put at the end, no message of the
\* state is replaced, reordered or removed; so the input of the run stays at
\* the front and the messages are in the order in which the nodes completed.
C25_AppendOnlyReducer ==
    /\ [](g_next # "idle" => IsPrefix(inputs, messages))
    /\ [][g_next # "idle" =>
            /\ IsPrefix(messages, messages')
            /\ Len(executed') > Len(executed) /\ g_next' # "raised"
                 => \A i \in (Len(messages) + 1)..Len(messages') :
                       \/ messages'[i].type \in {"ai", "tool"}
                       \/ executed'[Len(executed')] = "translate_to_english"]_vars

\* C25's case: translate_to_english returned the earlier messages and the
\* translation as its update: they follow the state as it was.
C25_Witness ==
    /\ executed = <<"translate_to_english">>
    /\ g_next = "agent"
    /\ history # <<>>
    /\ Len(messages) > Len(inputs)
    /\ IsPrefix(inputs, messages)

\* C26: after the agent node the next node is action if and only if the last
\* message of the state is an AIMessage with at least one tool call, and
\* otherwise direct_answer; direct_answer appends one further AIMessage
\* without tool calls, the answer of its own model call, after the agent's
\* message, which stays as it is.
C26_EdgeAfterAgent ==
    /\ (executed # <<>> /\ executed[Len(executed)] = "agent" /\ g_next # "raised")
         => /\ g_next \in {"action", "direct_answer"}
            /\ g_next = "action"
                 <=> /\ messages[Len(messages)].type = "ai"
                     /\ Len(messages[Len(messages)].tool_calls) >= 1
    /\ (executed # <<>> /\ executed[Len(executed)] = "direct_answer"
          /\ g_next # "raised")
         => /\ g_next = "END"
            /\ executed[Len(executed) - 1] = "agent"
            /\ messages[Len(messages)].type = "ai"
            /\ messages[Len(messages)].tool_calls = <<>>
            /\ messages[Len(messages)].content \in {"", "translated"}
            /\ messages[Len(messages) - 1].type = "ai"
            /\ messages[Len(messages) - 1].tool_calls = <<>>
            /\ messages[Len(messages) - 1].content \in {"", "answer"}

\* C26's case: the agent of the general graph answered with content and
\* without tool calls, and direct_answer appended its own answer.
C26_Witness ==
    /\ agent = "general"
    /\ executed = <<"agent", "direct_answer">>
    /\ g_next = "END"
    /\ messages[Len(messages) - 1].content = "answer"
    /\ messages[Len(messages)].content = "translated"

\* The greatest element of a set of positions, 0 if it is empty.
LastOf(S) == IF S = {} THEN 0 ELSE CHOOSE i \in S : \A j \in S : j <= i

\* The position of the most recent ToolMessage of msgs, and of the most
\* recent AIMessage without tool calls; 0 if there is none.
LastToolResult(msgs) ==
    LastOf({ i \in 1..Len(msgs) : msgs[i].type = "tool" })

LastAssistantAnswer(msgs) ==
    LastOf({ i \in 1..Len(msgs) :
               msgs[i].type = "ai" /\ msgs[i].tool_calls = <<>> })

\* What translate_to_korean can append when it translates content: the
\* rendering of the content, an empty answer of the model, or the error text
\* of its except branch.
RenderingsOf(content) ==
    {"", "error during translation"}
    \cup (IF content = "" THEN {} ELSE {korean(content)})

Qualifying(msgs) ==
    { i \in 1..Len(msgs) :
        /\ msgs[i].content # ""
        /\ \/ msgs[i].type = "tool"
           \/ msgs[i].type = "ai" /\ msgs[i].tool_calls = <<>> }

\* C28: format_response appends one AIMessage without tool calls whose
\* content is exactly that of the newest qualifying message of the state (a
\* ToolMessage with content, or an AIMessage with content and no tool
\* calls), or the fixed fallback failure message if no message qualifies.
C28_FormatSelection ==
    [][g_next = "format_response" =>
         LET newest == LastOf(Qualifying(messages))
             appended == messages'[Len(messages')]
         IN /\ Len(messages') = Len(messages) + 1
            /\ SubSeq(messages', 1, Len(messages)) = messages
            /\ appended.type = "ai" /\ appended.tool_calls = <<>>
            /\ appended.content =
                 IF newest # 0 THEN messages[newest].content
                 ELSE "sorry, no response"]_vars

\* C28's case: the newest messages of the state, an empty ToolMessage and
\* the AIMessage that carries the tool call, were skipped and the answer of
\* an earlier turn was selected.
C28_Witness ==
    /\ executed = <<"agent", "action", "format_response">>
    /\ dispatch.kind = "tool_messages"
    /\ \A i \in 1..Len(dispatch.update) : dispatch.update[i].content = ""
    /\ \E n \in 1..MaxHistTurns :
          messages[Len(messages)].content = AssistantTexts[n]

\* The collector a step starts from: StartRun makes a new one
\* (get_streaming_callback), every other step uses the one of the run.
CollectorBefore ==
    IF g_next = "idle" THEN [text |-> <<>>, tool |-> <<>>] ELSE Buffers

\* A step that certainly emits a snapshot: the input state at the start of
\* the run, or a node whose update changed the state.
SnapshotStep ==
    \/ g_next = "idle" /\ g_next' # "idle"
    \/ executed' # executed /\ messages' # messages

\* C29: in every step the two buffers of the collector only grow (the
\* earlier value is a prefix of the later one) and together gain at most one
\* entry; the text buffer gains an entry only for a latest message that is
\* an AIMessage with content and no tool calls, the tool-trace buffer only
\* for a latest message that is a ToolMessage, and on every snapshot the
\* latest message of the snapshot alone decides which entry is added.
C29_CollectorGrowth ==
    [][LET before == CollectorBefore
           latest == messages'[Len(messages')]
           answer == /\ latest.type = "ai" /\ latest.content # ""
                     /\ latest.tool_calls = <<>>
       IN /\ IsPrefix(before.text, accumulated_text')
          /\ IsPrefix(before.tool, accumulated_tool')
          /\ Len(accumulated_text') + Len(accumulated_tool')
               <= Len(before.text) + Len(before.tool) + 1
          /\ accumulated_text' # before.text =>
               /\ answer
               /\ accumulated_text' = Append(before.text, << latest.content >>)
          /\ accumulated_tool' # before.tool =>
               /\ latest.type = "tool"
               /\ accumulated_tool' = Append(before.tool, fenced(latest.content))
          /\ SnapshotStep =>
               /\ answer => accumulated_text' # before.text
               /\ latest.type = "tool" => accumulated_tool' # before.tool
    ]_vars

\* C29's case: a run in which the action node appended two ToolMessages in
\* one snapshot, which gave one entry of the tool trace, and a later snapshot
\* gave one entry of the text.
C29_Witness ==
    /\ dispatch.kind = "tool_messages"
    /\ Len(dispatch.update) = 2
    /\ Len(accumulated_tool) = 1
    /\ Len(accumulated_text) = 1

\* C30: whenever the JSON extraction of parse_llm_response fails (no
\* brace-delimited span, a span that is not valid JSON, or an object whose
\* workflow is not medical or general), the result is the one of the
\* substring test for "medical" in the raw response: medical if it occurs,
\* general if not, with confidence 0.7 and the method tag "fallback".
C30_TextFallbackOnFailure ==
    (last_call.invoked /\ last_call.kind = "response"
       /\ extraction(response_content) \in {"no_span", "invalid_json", "rejected"})
    => /\ last_call.result.workflow =
            IF mentions_medical(response_content) THEN "medical" ELSE "general"
       /\ last_call.result.confidence = 7
       /\ last_call.result.method = "fallback"

\* ------------------------------- claims on the lifecycle of a record
\* The log lines a step appends.
LinesAdded ==
    SubSeq(connection_logs', Len(connection_logs) + 1, Len(connection_logs'))

\* C31 (as stated): the status of a record is always connecting, connected
\* or failed; and every connect attempt on a server (one call of
\* connect_mcp_server) first records the server connecting, never records
\* connecting after connected, and ends with the record connected, with the
\* number of tools the server listed, or failed, with tool count 0 and an
\* error message that is not empty.
C31_RecordLifecycle ==
    /\ [](\A s \in DOMAIN server_status :
            server_status[s].status \in {"connecting", "connected", "failed"})
    /\ [][scope_pc = "dialing" =>
            LET s == cfg[next_idx]
                added == LinesAdded
                rec == server_status'[s]
            IN /\ added # <<>>
               /\ \A i \in 1..Len(added) : added[i].server = s
               /\ added[1].status = "connecting"
               /\ \A i, j \in 1..Len(added) :
                     (i < j /\ added[i].status = "connected")
                       => added[j].status # "connecting"
               /\ \/ /\ rec.status = "connected"
                     /\ outcome'[s].kind = "ok"
                     /\ rec.tools_count = outcome'[s].k
                  \/ /\ rec.status = "failed"
                     /\ rec.tools_count = 0
                     /\ rec.error_message # ""]_vars

\* ------------------------------------- claims on the classification cache
\* C32: no step overwrites or removes an entry of the classifier's cache, and
\* a classify_workflow call whose key is in the cache returns the value
\* stored under it.
C32_CacheImmutable ==
    [][/\ \A k \in DOMAIN cache :
            k \in DOMAIN cache' /\ cache'[k] = cache[k]
       /\ (n_calls' = n_calls + 1 /\ last_call'.key \in DOMAIN cache)
            => /\ last_call'.result = cache[last_call'.key]
               /\ ~last_call'.invoked]_vars

\* C32's case: a second call with the key of an entry stored by an earlier
\* call, after a reconnect, answered from the cache.
C32_Witness ==
    /\ n_calls = 2
    /\ last_call.kind = "cached"
    /\ prev_call.kind = "response"
    /\ last_call.key = prev_call.key
    /\ last_call.gen # prev_call.gen
    /\ last_call.result = prev_call.result

\* ------------------------------------ claims on the answer of a turn
\* C33 (as stated): the final text process_query_smart returns is the content
\* of an AIMessage the nodes of this run appended to the state (or the fixed
\* apology), and never the content of an AIMessage of an earlier turn that
\* was in the input of the run.
C33_AnswerOfThisTurn ==
    returned_text # <<>> =>
       /\ \/ returned_text = << "sorry, error while generating the response" >>
          \/ \E i \in (Len(inputs) + 1)..Len(messages) :
                /\ messages[i].type = "ai"
                /\ returned_text = << messages[i].content >>
       /\ ~ \E i \in 1..Len(inputs) :
               /\ inputs[i].type = "ai"
               /\ returned_text = << inputs[i].content >>

\* ---------------------------------- claims on the choice of the graph
\* C34 (as stated): select_workflow_type returns the workflow tag of the
\* result of classify_workflow, whatever its confidence and reason, and the
\* graph of that tag is the one built: medical for medical.
C34_WorkflowTagDecides ==
    /\ turn_pc \in {"compile", "run"} =>
          selected_workflow = last_call.result.workflow
    /\ turn_pc = "run" => agent = last_call.result.workflow

\* ------------------------------------- claims on the session's fields
\* C35: whenever the session is initialised, the catalog is not empty, the
\* tool count is its length, and the models and the configuration are set;
\* and a tool node of a graph runs only in an initialised session, so with a
\* catalog that is not empty.
C35_InitializedSessionComplete ==
    /\ session_initialized =>
          /\ available_tools # <<>>
          /\ tool_count = Len(available_tools)
          /\ main_model = "set"
          /\ mcp_config # <<>>
    /\ op = "action" =>
          /\ session_initialized
          /\ available_tools # <<>>

\* C35's case: a session initialised by the second operation, after a first
\* one that ended without an initialised session.
C35_Witness ==
    /\ session_initialized
    /\ op = "idle"
    /\ n_ops = 2
    /\ conn_gen = 1
    /\ main_model = "set"
    /\ Len(available_tools) = tool_count

\* ------------------------------------ claims on the shape of the history
\* C36: the history is a concatenation of groups (user, assistant) or (user,
\* assistant, assistant_tool): every user entry is first or follows an
\* assistant or assistant_tool entry and is followed by an assistant entry,
\* every assistant entry follows a user entry, and every assistant_tool entry
\* follows an assistant entry and has content that is not blank.
C36_HistoryShape ==
    \A i \in 1..Len(history) :
       CASE history[i].role = "user" ->
              /\ i < Len(history)
              /\ history[i + 1].role = "assistant"
              /\ i > 1 => history[i - 1].role \in {"assistant", "assistant_tool"}
         [] history[i].role = "assistant" ->
              /\ i > 1
              /\ history[i - 1].role = "user"
         [] history[i].role = "assistant_tool" ->
              /\ i > 1
              /\ history[i - 1].role = "assistant"
              /\ \E j \in 1..Len(history[i].content) :
                    history[i].content[j] # " "
         [] OTHER -> FALSE

\* C36's case: a turn of the agent branch ended and stored its three entries.
C36_Witness ==
    /\ turn_pc = "idle"
    /\ n_turns > 0
    /\ Len(history) = 3
    /\ history[3].role = "assistant_tool"

\* ------------------------------ claims on records and live sessions
\* The servers recorded connected.
Connected ==
    { s \in DOMAIN server_status : server_status[s].status = "connected" }

C38_BodyErrorKeepsConnected ==
    [][(scope_pc = "exiting" /\ op_result.kind = "raised")
          => \A s \in Connected : /\ s \in DOMAIN server_status'
                                  /\ server_status'[s].status = "connected"]_vars

\* C39 (as stated): when initialize_session returns, a server that connected
\* and listed zero tools is still recorded connected with tool count 0,
\* whatever the other servers did.
C39_ZeroToolServerStaysConnected ==
    [][(op = "init" /\ scope_pc = "exiting" /\ stack = <<>> /\ pending_exc = "none")
          => \A s \in Connected :
                server_status[s].tools_count = 0
                   => /\ s \in DOMAIN server_status'
                      /\ server_status'[s].status = "connected"
                      /\ server_status'[s].tools_count = 0]_vars

====
